---- MODULE Spec2Model ----
(***************************************************************************)
(* galay-redis: the pipelining AsyncRedisSession (request channel, writer  *)
(* coroutine sendCommand, reader coroutine receiveReply, pending deque     *)
(* m_waiters) and the awaitable-based RedisClient, as state machines.      *)
(*                                                                         *)
(* Bytes are modelled as tokens.  An encoded command is two tokens (the    *)
(* "*N" header and the bulk-string body); a reply frame is a token that    *)
(* carries the type byte and the text, followed by a CRLF token.  A socket *)
(* transfer moves any non-empty prefix of the tokens, so short writes and  *)
(* partial frames happen.                                                  *)
(***************************************************************************)
EXTENDS Integers, Sequences, FiniteSets, TLC

\* ------------------------------------------------------------------ bounds
MaxReq == 2
MaxBatch == 2
MaxUnsolicited == 1
MaxServerErrors == 1
MaxTimeouts == 1
MaxDb == 1
MaxThreads == 2
MaxEntries == 3
MaxOps == 5
MaxHandles == 3
MaxWrapped == 2
MaxParts == 2
MaxCount == 2
MaxJunk == 2
MaxConnects == 3
\* ConnectionPoolConfig, scaled down
min_connections == 1
max_connections == 2
initial_connections == 1
\* AsyncRedisConfig::buffer_size, scaled down
RingCapacity == 6
\* the nesting depth a RESP parser is to accept at most, scaled down
MaxDepth == 8

\* --------------------------------------------------------------- variables
VARIABLES
    calls,        \* the execute/pipeline calls made so far; a call's id is its index
    channel,      \* m_channel: requests {encoded_cmd, batch_size, waiter}
    writerPc,     \* sendCommand: "none" | "idle" | "sending" | "sent"
    cur,          \* the request sendCommand took from the channel
    rem,          \* bytes of cur not yet handed to the socket
    m_waiters,    \* deque of {batch_size, waiter}
    results,      \* receiveReply's local vector results
    buffer,       \* receiveReply's RingBuffer: bytes read and not consumed
    readerPc,     \* receiveReply: "none" | "recv" | "exited"
    parseFailed,  \* receiveReply has taken its parse-error branch
    m_is_closed,
    sock,         \* m_socket: "none" | "open" | "eof" | "broken" | "closed" | "failed"
    closePc,      \* close(): "idle" | "closing" | "done"
    delivered,    \* per call, the notifications its waiter got
    wireOut,      \* request bytes the server has and has not answered
    wireIn,       \* reply bytes on their way to the client
    produced,     \* per call, the replies the server produced for it
    unsolicited,  \* number of frames the server sent that answer no request
    callerPc,     \* the coroutine using the RedisClient: "none" | "idle" | "suspended" | "retry"
    issued,       \* number of commands the coroutine has started on the RedisClient
    m_cmd,        \* m_cmd_awaitable: the command it encodes, 0 when it has no value
    m_state,      \* m_cmd_awaitable: "Invalid" | "Sending" | "Receiving"
    m_sent,       \* m_cmd_awaitable: bytes of m_encoded_cmd sent
    m_values,     \* m_cmd_awaitable: replies parsed so far
    m_ring_buffer,\* RedisClient::m_ring_buffer: bytes read and not consumed
    completed,    \* per command, what co_await finally returned for it
    timeouts,     \* number of awaits the timer has cut short
    client_is_closed, \* RedisClient::m_is_closed
    clientCloseDone,  \* co_await client.close() has returned
    hsPc,         \* connect()'s coroutine: "none" | "auth" | "select" | "auth_close" |
                  \* "select_close" | "done" | "failed"
    hsCfg,        \* connect()'s arguments: is a password set, and db_index
    connectResult,\* what connect()'s waiter was notified with
    pool,         \* RedisConnectionPool: its members, with those of its two awaitables
    m_is_healthy, \* per pool entry, PooledConnection::m_is_healthy
    connected,    \* per pool entry, its client has completed connect()
    expired,      \* per pool entry, getIdleTime() > idle_timeout
    held,         \* per pool entry, the number of callers that hold it
    tpc,          \* per thread, where it is inside a pool operation
    tlocal,       \* per thread, the operation's local (conn, current_size, idle_connections)
    tres,         \* per thread, what its last acquire() returned
    initResult,   \* what the calls of initialize() returned
    shutdownDone, \* shutdown() has returned
    ops,          \* number of pool operations started
    handles,      \* per ScopedConnection object: its lifetime state, m_pool, m_conn
    wrapped,      \* number of entries that were given to a ScopedConnection constructor
    releaseCalls, \* per entry, the calls of RedisConnectionPool::release made by handles
    codec,        \* a RESP buffer: what is being sent (kind, parts, frame) and the bytes received
    life,         \* an AsyncRedisSession's tasks: its socket, m_is_closed, connect()'s
                  \* position, and the writer and reader coroutines spawned and not returned
    redisError,   \* a RedisError object (m_type, m_extra_msg) and what message() returned
    ringbuf,      \* RedisClient::m_ring_buffer as bytes: capacity, cursors, and the
                  \* (data, len) range last handed to RespParser::parse
    m_connect_awaitable  \* RedisClient::m_connect_awaitable, the socket it connects and
                  \* the coroutine that awaits RedisClient::connect

\* the RedisClient and the coroutine that uses it
clientVars == <<callerPc, issued, m_cmd, m_state, m_sent, m_values, m_ring_buffer,
                completed, timeouts, client_is_closed, clientCloseDone>>

\* the AsyncRedisSession, its two coroutines and its callers
sessionVars == <<calls, channel, writerPc, cur, rem, m_waiters, results, buffer,
                 readerPc, parseFailed, m_is_closed, closePc, delivered>>

\* the connection and the server behind it
peerVars == <<sock, wireOut, wireIn, produced, unsolicited>>

\* AsyncRedisSession::connect's coroutine
handshakeVars == <<hsPc, hsCfg, connectResult>>

\* RedisConnectionPool, its entries and the threads that use it
poolVars == <<pool, m_is_healthy, connected, expired, held, tpc, tlocal, tres,
              initResult, shutdownDone, ops>>

\* the ScopedConnection objects
scopedVars == <<handles, wrapped, releaseCalls>>

\* everything but the pool
nonPoolVars == <<sessionVars, peerVars, clientVars, handshakeVars>>

\* everything but the RESP buffer
nonCodecVars == <<sessionVars, peerVars, clientVars, handshakeVars, poolVars, scopedVars, life,
                  redisError, ringbuf, m_connect_awaitable>>

\* everything but the session's tasks
nonLifeVars == <<sessionVars, peerVars, clientVars, handshakeVars, poolVars, scopedVars, codec,
                 redisError, ringbuf, m_connect_awaitable>>

\* everything but the RedisError object
nonErrorVars == <<sessionVars, peerVars, clientVars, handshakeVars, poolVars, scopedVars, codec, life,
                  ringbuf, m_connect_awaitable>>

\* everything but the byte-level ring buffer
nonRingVars == <<sessionVars, peerVars, clientVars, handshakeVars, poolVars, scopedVars, codec, life,
                 redisError, m_connect_awaitable>>

\* everything but RedisClient::connect's awaitable
nonConnectVars == <<sessionVars, peerVars, clientVars, handshakeVars, poolVars, scopedVars, codec, life,
                    redisError, ringbuf>>

vars == <<sessionVars, peerVars, clientVars, handshakeVars, poolVars, scopedVars, codec, life,
          redisError, ringbuf, m_connect_awaitable>>

Ids == 1..MaxReq
NoReq == [id |-> 0, batch_size |-> 0]

\* ------------------------------------------------------------------ values
CRLF == [m |-> "CRLF", req |-> 0, idx |-> 0]

\* RedisValue built from a parsed reply
RedisValue(tok) ==
    [type |-> IF tok.m = "-" THEN "Error" ELSE "SimpleString",
     req |-> tok.req, idx |-> tok.idx]

\* RedisValue::fromError(msg): an Error value made by the client itself
fromError == [type |-> "Error", req |-> 0, idx |-> 0]

Ok(vals) == [ok |-> TRUE, err |-> "", vals |-> vals]
RedisError(kind) == [ok |-> FALSE, err |-> kind, vals |-> <<>>]

\* waiter->notify(x) for the waiter of call id
notify(d, id, x) == [d EXCEPT ![id] = Append(@, x)]

\* ------------------------------------------------------------------- codec
\* RespEncoder::encodeCommand: the array header, then the bulk strings
encodeCommand(id, i) ==
    << [k |-> "hdr", req |-> id, idx |-> i], [k |-> "body", req |-> id, idx |-> i] >>

\* batch_encoded += encodeCommand(cmd_parts), for each of the n sub-commands
RECURSIVE encodeBatch(_, _)
encodeBatch(id, n) ==
    IF n = 0 THEN <<>> ELSE encodeBatch(id, n - 1) \o encodeCommand(id, n)

\* RespParser::findCRLF: the first terminator at or after offset, 0 if none
findCRLF(data, offset) ==
    LET at == {i \in (offset + 1)..Len(data) : data[i] = CRLF}
    IN IF at = {} THEN 0 ELSE CHOOSE i \in at : \A j \in at : i <= j

ParseOk(n, tok) == [st |-> "Ok", consumed |-> n, tok |-> tok]
ParseErr(e) == [st |-> e, consumed |-> 0, tok |-> CRLF]

\* RespParser::parseSimpleString / parseError: text up to the terminator
parseSimpleString(data) ==
    LET crlf_pos == findCRLF(data, 1)
    IN IF crlf_pos = 0 THEN ParseErr("Incomplete") ELSE ParseOk(crlf_pos, data[1])

\* RespParser::parse: dispatch on the type byte; '+' and '-' are the reply
\* kinds the modelled server sends, every other first byte reaches default
parse(data) ==
    IF Len(data) < 1 THEN ParseErr("Incomplete")
    ELSE CASE data[1].m = "+" -> parseSimpleString(data)
           [] data[1].m = "-" -> parseSimpleString(data)
           [] OTHER -> ParseErr("InvalidType")

\* ------------------------------------------------------ the pending deque
\* m_waiters.push_back({batch_size, waiter})
push_back(q, e) == Append(q, e)

\* m_waiters.front().first--
decrement_front(q) == [q EXCEPT ![1].batch_size = @ - 1]

\* m_waiters.pop_front()
pop_front(q) == Tail(q)

\* defective variant of CompleteOne: results is not cleared after a batch
CompleteOne_keepResults(st, v, asError) ==
    LET w == Head(st.waiters)
        res == Append(st.results, v)
        q == decrement_front(st.waiters)
    IN IF q[1].batch_size = 0
       THEN [st EXCEPT !.waiters = pop_front(q),
                       !.delivered = notify(@, w.id,
                                            IF asError THEN RedisError("Network") ELSE Ok(res)),
                       !.results = res]
       ELSE [st EXCEPT !.waiters = q, !.results = res]

\* results.push_back(v), then, when the head batch's count reaches 0, pop it,
\* notify its waiter with x (the results or an error) and clear results
CompleteOne(st, v, asError) ==
    LET w == Head(st.waiters)
        res == Append(st.results, v)
        q == decrement_front(st.waiters)
    IN IF q[1].batch_size = 0
       THEN [st EXCEPT !.waiters = pop_front(q),
                       !.delivered = notify(@, w.id,
                                            IF asError THEN RedisError("Network") ELSE Ok(res)),
                       !.results = <<>>]
       ELSE [st EXCEPT !.waiters = q, !.results = res]

\* receiveReply's inner while(true): drain the complete replies in the buffer
RECURSIVE ParseLoop(_)
ParseLoop(st) ==
    IF st.waiters = <<>> THEN st
    ELSE LET parse_result == parse(st.buffer)
         IN CASE parse_result.st = "Ok" ->
                   ParseLoop(CompleteOne(
                       [st EXCEPT !.buffer = SubSeq(@, parse_result.consumed + 1, Len(@))],
                       RedisValue(parse_result.tok), FALSE))
              [] parse_result.st = "Incomplete" -> st
              [] OTHER -> [CompleteOne(st, fromError, FALSE) EXCEPT !.last = TRUE]

ReaderState ==
    [waiters |-> m_waiters, results |-> results, buffer |-> buffer,
     delivered |-> delivered, last |-> parseFailed]

SetReaderState(st) ==
    /\ m_waiters' = st.waiters
    /\ results' = st.results
    /\ buffer' = st.buffer
    /\ delivered' = st.delivered
    /\ parseFailed' = st.last

\* defective variant of channel_recv: the newest request is taken first
channel_recv_newest(ch) == [item |-> ch[Len(ch)], rest |-> SubSeq(ch, 1, Len(ch) - 1)]

\* co_await m_channel.recv(): the oldest request, and the channel without it
channel_recv(ch) == [item |-> Head(ch), rest |-> Tail(ch)]

\* m_channel.send({encoded_cmd, batch_size, waiter})
channel_send(ch, id, batch_size, n) ==
    Append(ch, [id |-> id, batch_size |-> batch_size, bytes |-> encodeBatch(id, n)])

\* ---------------------------------------------------------------- session
SessionInit ==
    /\ calls = <<>>
    /\ channel = <<>>
    /\ writerPc = "none"
    /\ cur = NoReq
    /\ rem = <<>>
    /\ m_waiters = <<>>
    /\ results = <<>>
    /\ buffer = <<>>
    /\ readerPc = "none"
    /\ parseFailed = FALSE
    /\ m_is_closed = FALSE
    /\ sock = "none"
    /\ closePc = "idle"
    /\ delivered = [i \in Ids |-> <<>>]
    /\ wireOut = <<>>
    /\ wireIn = <<>>
    /\ produced = [i \in Ids |-> <<>>]
    /\ unsolicited = 0
    /\ hsPc = "none"
    /\ hsCfg = [password |-> FALSE, db_index |-> 0]
    /\ connectResult = <<>>

\* execute(...) as connect() calls it for AUTH and SELECT
handshake_execute(kind) ==
    /\ calls' = Append(calls, [kind |-> kind, n |-> 1, valid |-> TRUE])
    /\ IF m_is_closed
       THEN /\ delivered' = notify(delivered, Len(calls) + 1, RedisError("ConnectionClosed"))
            /\ UNCHANGED channel
       ELSE /\ channel' = channel_send(channel, Len(calls) + 1, 1, 1)
            /\ UNCHANGED delivered

\* connect(ip, port, username, password, db_index, version): the socket
\* connects, the reader and the writer are spawned, then AUTH is sent when a
\* password is set, else SELECT when db_index is not 0, else success is notified
connect_as(password, db_index) ==
    /\ sock = "none"
    /\ hsCfg' = [password |-> password, db_index |-> db_index]
    /\ \E connect_result \in BOOLEAN :
         IF connect_result
         THEN /\ sock' = "open"
              /\ readerPc' = "recv"
              /\ writerPc' = "idle"
              /\ IF password
                 THEN /\ hsPc' = "auth"
                      /\ handshake_execute("auth")
                      /\ UNCHANGED connectResult
                 ELSE IF db_index # 0
                 THEN /\ hsPc' = "select"
                      /\ handshake_execute("select")
                      /\ UNCHANGED connectResult
                 ELSE /\ hsPc' = "done"
                      /\ connectResult' = << Ok(<<>>) >>
                      /\ UNCHANGED <<calls, channel, delivered>>
         ELSE /\ sock' = "failed"
              /\ hsPc' = "failed"
              /\ connectResult' = << RedisError("Network") >>
              /\ UNCHANGED <<readerPc, writerPc, calls, channel, delivered>>
    /\ UNCHANGED <<cur, rem, m_waiters, results, buffer, parseFailed, m_is_closed,
                   closePc, wireOut, wireIn, produced, unsolicited>>
    /\ UNCHANGED clientVars
    /\ UNCHANGED poolVars
    /\ UNCHANGED scopedVars
    /\ UNCHANGED <<codec, life, redisError, ringbuf, m_connect_awaitable>>

\* connect(ip, port, "", "", 0, 2): no password and db 0, so no handshake command
connect == connect_as(FALSE, 0)

\* connect with a password, a db index, or both
connectHandshake ==
    \E password \in BOOLEAN, db_index \in 0..MaxDb :
        /\ password \/ db_index # 0
        /\ connect_as(password, db_index)

\* the call connect() made for a handshake step
HandshakeCall(kind) == CHOOSE i \in 1..Len(calls) : calls[i].kind = kind

\* co_await close() inside connect(): the socket is closed; is_closed is set
\* by closeFinish
handshake_close(pc) ==
    /\ hsPc' = pc
    /\ sock' = "closed"
    /\ closePc' = "closing"
    /\ UNCHANGED <<calls, channel, delivered, connectResult>>

\* defective variant of HandshakeAuthResume: an Error reply counts as success
HandshakeAuthResume_anyReply ==
    /\ hsPc = "auth"
    /\ delivered[HandshakeCall("auth")] # <<>>
    /\ LET auth_result == delivered[HandshakeCall("auth")][1]
       IN IF ~auth_result.ok \/ auth_result.vals = <<>>
          THEN handshake_close("auth_close")
          ELSE IF hsCfg.db_index # 0
          THEN /\ hsPc' = "select"
               /\ handshake_execute("select")
               /\ UNCHANGED <<connectResult, sock, closePc>>
          ELSE /\ hsPc' = "done"
               /\ connectResult' = << Ok(<<>>) >>
               /\ UNCHANGED <<calls, channel, delivered, sock, closePc>>
    /\ UNCHANGED <<writerPc, cur, rem, m_waiters, results, buffer, readerPc, parseFailed,
                   m_is_closed, wireOut, wireIn, produced, unsolicited, hsCfg>>
    /\ UNCHANGED clientVars
    /\ UNCHANGED poolVars
    /\ UNCHANGED scopedVars
    /\ UNCHANGED <<codec, life, redisError, ringbuf, m_connect_awaitable>>

\* connect() resumes with auth_result
HandshakeAuthResume ==
    /\ hsPc = "auth"
    /\ delivered[HandshakeCall("auth")] # <<>>
    /\ LET auth_result == delivered[HandshakeCall("auth")][1]
       IN IF ~auth_result.ok \/ auth_result.vals = <<>> \/ auth_result.vals[1].type = "Error"
          THEN handshake_close("auth_close")
          ELSE IF hsCfg.db_index # 0
          THEN /\ hsPc' = "select"
               /\ handshake_execute("select")
               /\ UNCHANGED <<connectResult, sock, closePc>>
          ELSE /\ hsPc' = "done"
               /\ connectResult' = << Ok(<<>>) >>
               /\ UNCHANGED <<calls, channel, delivered, sock, closePc>>
    /\ UNCHANGED <<writerPc, cur, rem, m_waiters, results, buffer, readerPc, parseFailed,
                   m_is_closed, wireOut, wireIn, produced, unsolicited, hsCfg>>
    /\ UNCHANGED clientVars
    /\ UNCHANGED poolVars
    /\ UNCHANGED scopedVars
    /\ UNCHANGED <<codec, life, redisError, ringbuf, m_connect_awaitable>>

\* connect() resumes with select_result
HandshakeSelectResume ==
    /\ hsPc = "select"
    /\ delivered[HandshakeCall("select")] # <<>>
    /\ LET select_result == delivered[HandshakeCall("select")][1]
       IN IF ~select_result.ok \/ select_result.vals[1].type = "Error"
          THEN handshake_close("select_close")
          ELSE /\ hsPc' = "done"
               /\ connectResult' = << Ok(<<>>) >>
               /\ UNCHANGED <<calls, channel, delivered, sock, closePc>>
    /\ UNCHANGED <<writerPc, cur, rem, m_waiters, results, buffer, readerPc, parseFailed,
                   m_is_closed, wireOut, wireIn, produced, unsolicited, hsCfg>>
    /\ UNCHANGED clientVars
    /\ UNCHANGED poolVars
    /\ UNCHANGED scopedVars
    /\ UNCHANGED <<codec, life, redisError, ringbuf, m_connect_awaitable>>

\* connect() resumes from co_await close() and notifies the step's error
HandshakeAbort ==
    /\ hsPc \in {"auth_close", "select_close"}
    /\ closePc = "done"
    /\ connectResult' = << RedisError(IF hsPc = "auth_close" THEN "Auth" ELSE "DbIndexInvalid") >>
    /\ hsPc' = "failed"
    /\ UNCHANGED <<hsCfg, sessionVars, peerVars, clientVars>>
    /\ UNCHANGED poolVars
    /\ UNCHANGED scopedVars
    /\ UNCHANGED <<codec, life, redisError, ringbuf, m_connect_awaitable>>

\* callers use the session once connect has succeeded
Connected == hsPc = "done"

\* defective variant of execute: m_is_closed is not checked
execute_unchecked ==
    /\ Connected
    /\ Len(calls) < MaxReq
    /\ calls' = Append(calls, [kind |-> "execute", n |-> 1, valid |-> TRUE])
    /\ channel' = channel_send(channel, Len(calls) + 1, 1, 1)
    /\ UNCHANGED <<delivered, writerPc, cur, rem, m_waiters, results, buffer, readerPc,
                   parseFailed, m_is_closed, sock, closePc, wireOut, wireIn, produced,
                   unsolicited>>
    /\ UNCHANGED clientVars
    /\ UNCHANGED handshakeVars
    /\ UNCHANGED poolVars
    /\ UNCHANGED scopedVars
    /\ UNCHANGED <<codec, life, redisError, ringbuf, m_connect_awaitable>>

\* execute(cmd, args...) and executeCommand
execute ==
    /\ Connected
    /\ Len(calls) < MaxReq
    /\ calls' = Append(calls, [kind |-> "execute", n |-> 1, valid |-> TRUE])
    /\ IF m_is_closed
       THEN /\ delivered' = notify(delivered, Len(calls) + 1, RedisError("ConnectionClosed"))
            /\ UNCHANGED channel
       ELSE /\ channel' = channel_send(channel, Len(calls) + 1, 1, 1)
            /\ UNCHANGED delivered
    /\ UNCHANGED <<writerPc, cur, rem, m_waiters, results, buffer, readerPc, parseFailed,
                   m_is_closed, sock, closePc, wireOut, wireIn, produced, unsolicited>>
    /\ UNCHANGED clientVars
    /\ UNCHANGED handshakeVars
    /\ UNCHANGED poolVars
    /\ UNCHANGED scopedVars
    /\ UNCHANGED <<codec, life, redisError, ringbuf, m_connect_awaitable>>

\* defective variant of pipeline: the batch is enqueued with batch size 1
pipeline_batch1(n, empty_cmd) ==
    /\ Connected
    /\ Len(calls) < MaxReq
    /\ empty_cmd => n = 1
    /\ calls' = Append(calls, [kind |-> "pipeline", n |-> n, valid |-> ~empty_cmd])
    /\ IF m_is_closed
       THEN /\ delivered' = notify(delivered, Len(calls) + 1, RedisError("ConnectionClosed"))
            /\ UNCHANGED channel
       ELSE IF n = 0
       THEN /\ delivered' = notify(delivered, Len(calls) + 1, Ok(<<>>))
            /\ UNCHANGED channel
       ELSE IF empty_cmd
       THEN /\ delivered' = notify(delivered, Len(calls) + 1, RedisError("Command"))
            /\ UNCHANGED channel
       ELSE /\ channel' = channel_send(channel, Len(calls) + 1, 1, n)
            /\ UNCHANGED delivered
    /\ UNCHANGED <<writerPc, cur, rem, m_waiters, results, buffer, readerPc, parseFailed,
                   m_is_closed, sock, closePc, wireOut, wireIn, produced, unsolicited>>
    /\ UNCHANGED clientVars
    /\ UNCHANGED handshakeVars
    /\ UNCHANGED poolVars
    /\ UNCHANGED scopedVars
    /\ UNCHANGED <<codec, life, redisError, ringbuf, m_connect_awaitable>>

\* pipeline(commands): n sub-commands, one of them empty when empty_cmd
pipeline(n, empty_cmd) ==
    /\ Connected
    /\ Len(calls) < MaxReq
    /\ empty_cmd => n = 1
    /\ calls' = Append(calls, [kind |-> "pipeline", n |-> n, valid |-> ~empty_cmd])
    /\ IF m_is_closed
       THEN /\ delivered' = notify(delivered, Len(calls) + 1, RedisError("ConnectionClosed"))
            /\ UNCHANGED channel
       ELSE IF n = 0
       THEN /\ delivered' = notify(delivered, Len(calls) + 1, Ok(<<>>))
            /\ UNCHANGED channel
       ELSE IF empty_cmd
       THEN /\ delivered' = notify(delivered, Len(calls) + 1, RedisError("Command"))
            /\ UNCHANGED channel
       ELSE /\ channel' = channel_send(channel, Len(calls) + 1, n, n)
            /\ UNCHANGED delivered
    /\ UNCHANGED <<writerPc, cur, rem, m_waiters, results, buffer, readerPc, parseFailed,
                   m_is_closed, sock, closePc, wireOut, wireIn, produced, unsolicited>>
    /\ UNCHANGED clientVars
    /\ UNCHANGED handshakeVars
    /\ UNCHANGED poolVars
    /\ UNCHANGED scopedVars
    /\ UNCHANGED <<codec, life, redisError, ringbuf, m_connect_awaitable>>

\* sendCommand: co_await m_channel.recv() returns a request
WriterRecv ==
    /\ writerPc = "idle"
    /\ channel # <<>>
    /\ LET r == channel_recv(channel)
       IN /\ cur' = [id |-> r.item.id, batch_size |-> r.item.batch_size]
          /\ rem' = r.item.bytes
          /\ channel' = r.rest
    /\ writerPc' = "sending"
    /\ UNCHANGED <<calls, m_waiters, results, buffer, readerPc, parseFailed, m_is_closed,
                   sock, closePc, delivered, wireOut, wireIn, produced, unsolicited>>
    /\ UNCHANGED clientVars
    /\ UNCHANGED handshakeVars
    /\ UNCHANGED poolVars
    /\ UNCHANGED scopedVars
    /\ UNCHANGED <<codec, life, redisError, ringbuf, m_connect_awaitable>>

\* sendCommand: the socket takes k of the remaining bytes (a short write when
\* k is not all of them); after the last byte the coroutine waits to resume.
\* A socket whose peer has shut down its side still takes bytes
WriterSend ==
    /\ writerPc = "sending"
    /\ sock \in {"open", "eof"}
    /\ \E k \in 1..Len(rem) :
         /\ wireOut' = wireOut \o SubSeq(rem, 1, k)
         /\ rem' = SubSeq(rem, k + 1, Len(rem))
         /\ writerPc' = IF k = Len(rem) THEN "sent" ELSE "sending"
    /\ UNCHANGED <<calls, channel, cur, m_waiters, results, buffer, readerPc, parseFailed,
                   m_is_closed, sock, closePc, delivered, wireIn, produced, unsolicited>>
    /\ UNCHANGED clientVars
    /\ UNCHANGED handshakeVars
    /\ UNCHANGED poolVars
    /\ UNCHANGED scopedVars
    /\ UNCHANGED <<codec, life, redisError, ringbuf, m_connect_awaitable>>

\* sendCommand resumes with result.value().empty(): m_waiters.push_back
WriterResume ==
    /\ writerPc = "sent"
    /\ m_waiters' = push_back(m_waiters, [batch_size |-> cur.batch_size, id |-> cur.id])
    /\ writerPc' = "idle"
    /\ cur' = NoReq
    /\ UNCHANGED <<calls, channel, rem, results, buffer, readerPc, parseFailed, m_is_closed,
                   sock, closePc, delivered, wireOut, wireIn, produced, unsolicited>>
    /\ UNCHANGED clientVars
    /\ UNCHANGED handshakeVars
    /\ UNCHANGED poolVars
    /\ UNCHANGED scopedVars
    /\ UNCHANGED <<codec, life, redisError, ringbuf, m_connect_awaitable>>

\* sendCommand: send fails; only this request's waiter is notified and the
\* loop goes on to the next request
WriterSendFail ==
    /\ writerPc = "sending"
    /\ sock \in {"broken", "closed"}
    /\ delivered' = notify(delivered, cur.id, RedisError("Network"))
    /\ writerPc' = "idle"
    /\ cur' = NoReq
    /\ rem' = <<>>
    /\ UNCHANGED <<calls, channel, m_waiters, results, buffer, readerPc, parseFailed,
                   m_is_closed, sock, closePc, wireOut, wireIn, produced, unsolicited>>
    /\ UNCHANGED clientVars
    /\ UNCHANGED handshakeVars
    /\ UNCHANGED poolVars
    /\ UNCHANGED scopedVars
    /\ UNCHANGED <<codec, life, redisError, ringbuf, m_connect_awaitable>>

\* receiveReply: recv returns k bytes, then the parse loop runs
ReaderRecv ==
    /\ readerPc = "recv"
    /\ sock = "open"
    /\ \E k \in 1..Len(wireIn) :
         /\ SetReaderState(ParseLoop(
                [ReaderState EXCEPT !.buffer = @ \o SubSeq(wireIn, 1, k)]))
         /\ wireIn' = SubSeq(wireIn, k + 1, Len(wireIn))
    /\ UNCHANGED <<calls, channel, writerPc, cur, rem, readerPc, m_is_closed, sock,
                   closePc, wireOut, produced, unsolicited>>
    /\ UNCHANGED clientVars
    /\ UNCHANGED handshakeVars
    /\ UNCHANGED poolVars
    /\ UNCHANGED scopedVars
    /\ UNCHANGED <<codec, life, redisError, ringbuf, m_connect_awaitable>>

\* receiveReply: recv fails (error, or end of stream after the peer shut down)
ReaderRecvFail ==
    /\ readerPc = "recv"
    /\ sock \in {"broken", "closed", "eof"}
    /\ IF m_waiters = <<>>
       THEN /\ readerPc' = "exited"
            /\ UNCHANGED <<m_waiters, results, buffer, delivered, parseFailed>>
       ELSE /\ SetReaderState(CompleteOne(ReaderState, fromError, TRUE))
            /\ UNCHANGED readerPc
    /\ UNCHANGED <<calls, channel, writerPc, cur, rem, m_is_closed, sock, closePc,
                   wireOut, wireIn, produced, unsolicited>>
    /\ UNCHANGED clientVars
    /\ UNCHANGED handshakeVars
    /\ UNCHANGED poolVars
    /\ UNCHANGED scopedVars
    /\ UNCHANGED <<codec, life, redisError, ringbuf, m_connect_awaitable>>

\* close(): co_await socket.close()
closeStart ==
    /\ Connected
    /\ closePc = "idle"
    /\ ~m_is_closed
    /\ sock' = "closed"
    /\ closePc' = "closing"
    /\ UNCHANGED <<calls, channel, writerPc, cur, rem, m_waiters, results, buffer,
                   readerPc, parseFailed, m_is_closed, delivered, wireOut, wireIn,
                   produced, unsolicited>>
    /\ UNCHANGED clientVars
    /\ UNCHANGED handshakeVars
    /\ UNCHANGED poolVars
    /\ UNCHANGED scopedVars
    /\ UNCHANGED <<codec, life, redisError, ringbuf, m_connect_awaitable>>

\* close(): is_closed = true, then the caller of close() is notified
closeFinish ==
    /\ closePc = "closing"
    /\ m_is_closed' = TRUE
    /\ closePc' = "done"
    /\ UNCHANGED <<calls, channel, writerPc, cur, rem, m_waiters, results, buffer,
                   readerPc, parseFailed, sock, delivered, wireOut, wireIn, produced,
                   unsolicited>>
    /\ UNCHANGED clientVars
    /\ UNCHANGED handshakeVars
    /\ UNCHANGED poolVars
    /\ UNCHANGED scopedVars
    /\ UNCHANGED <<codec, life, redisError, ringbuf, m_connect_awaitable>>

\* ----------------------------------------------------- the server, the peer
\* the number of Error replies the server has produced
ServerErrors ==
    Cardinality({<<i, j>> \in Ids \X (1..(MaxBatch + 1)) :
                    j <= Len(produced[i]) /\ produced[i][j].type = "Error"})

\* the server answers the oldest complete command it has received, with a
\* reply ('+') or with an Error reply ('-')
ServerAnswer ==
    /\ sock = "open"
    /\ Len(wireOut) >= 2
    /\ \E m \in {"+", "-"} :
         /\ m = "-" => ServerErrors < MaxServerErrors
         /\ LET tok == [m |-> m, req |-> wireOut[1].req, idx |-> wireOut[1].idx]
            IN /\ wireIn' = wireIn \o <<tok, CRLF>>
               /\ produced' = [produced EXCEPT ![tok.req] = Append(@, RedisValue(tok))]
    /\ wireOut' = SubSeq(wireOut, 3, Len(wireOut))
    /\ UNCHANGED <<calls, channel, writerPc, cur, rem, m_waiters, results, buffer,
                   readerPc, parseFailed, m_is_closed, sock, closePc, delivered,
                   unsolicited>>
    /\ UNCHANGED clientVars
    /\ UNCHANGED handshakeVars
    /\ UNCHANGED poolVars
    /\ UNCHANGED scopedVars
    /\ UNCHANGED <<codec, life, redisError, ringbuf, m_connect_awaitable>>

\* the server sends a RESP3 push frame ('>'), which answers no request
ServerPush ==
    /\ sock = "open"
    /\ unsolicited < MaxUnsolicited
    /\ wireIn' = wireIn \o << [m |-> ">", req |-> 0, idx |-> 0], CRLF >>
    /\ unsolicited' = unsolicited + 1
    /\ UNCHANGED <<calls, channel, writerPc, cur, rem, m_waiters, results, buffer,
                   readerPc, parseFailed, m_is_closed, sock, closePc, delivered,
                   wireOut, produced>>
    /\ UNCHANGED clientVars
    /\ UNCHANGED handshakeVars
    /\ UNCHANGED poolVars
    /\ UNCHANGED scopedVars
    /\ UNCHANGED <<codec, life, redisError, ringbuf, m_connect_awaitable>>

\* the server sends bytes that are no RESP frame ("?garbage\r\n")
ServerGarbage ==
    /\ sock = "open"
    /\ unsolicited < MaxUnsolicited
    /\ wireIn' = wireIn \o << [m |-> "?", req |-> 0, idx |-> 0], CRLF >>
    /\ unsolicited' = unsolicited + 1
    /\ UNCHANGED <<calls, channel, writerPc, cur, rem, m_waiters, results, buffer,
                   readerPc, parseFailed, m_is_closed, sock, closePc, delivered,
                   wireOut, produced>>
    /\ UNCHANGED clientVars
    /\ UNCHANGED handshakeVars
    /\ UNCHANGED poolVars
    /\ UNCHANGED scopedVars
    /\ UNCHANGED <<codec, life, redisError, ringbuf, m_connect_awaitable>>

\* the connection fails or the peer closes it
SocketBreak ==
    /\ sock = "open"
    /\ sock' = "broken"
    /\ UNCHANGED <<calls, channel, writerPc, cur, rem, m_waiters, results, buffer,
                   readerPc, parseFailed, m_is_closed, closePc, delivered, wireOut,
                   wireIn, produced, unsolicited>>
    /\ UNCHANGED clientVars
    /\ UNCHANGED handshakeVars
    /\ UNCHANGED poolVars
    /\ UNCHANGED scopedVars
    /\ UNCHANGED <<codec, life, redisError, ringbuf, m_connect_awaitable>>

\* the server has answered all it received and shuts down its side of the
\* connection: the client's reads report the end of the stream, its writes
\* are still taken
PeerShutdown ==
    /\ sock = "open"
    /\ wireOut = <<>>
    /\ wireIn = <<>>
    /\ sock' = "eof"
    /\ UNCHANGED <<calls, channel, writerPc, cur, rem, m_waiters, results, buffer,
                   readerPc, parseFailed, m_is_closed, closePc, delivered, wireOut,
                   wireIn, produced, unsolicited>>
    /\ UNCHANGED clientVars
    /\ UNCHANGED handshakeVars
    /\ UNCHANGED poolVars
    /\ UNCHANGED scopedVars
    /\ UNCHANGED <<codec, life, redisError, ringbuf, m_connect_awaitable>>

\* ------------------------------------------------------------ RedisClient
\* RedisClient::execute passes expected_replies = 1
m_expected_replies == 1

ClientInit ==
    /\ callerPc = "none"
    /\ issued = 0
    /\ m_cmd = 0
    /\ m_state = "Invalid"
    /\ m_sent = 0
    /\ m_values = <<>>
    /\ m_ring_buffer = <<>>
    /\ completed = [i \in Ids |-> <<>>]
    /\ timeouts = 0
    /\ client_is_closed = FALSE
    /\ clientCloseDone = FALSE

\* RedisClient::connect without password and with db 0: the socket connects
RedisClient_connect ==
    /\ sock = "none"
    /\ callerPc = "none"
    /\ \E connect_result \in BOOLEAN :
         IF connect_result
         THEN sock' = "open" /\ callerPc' = "idle"
         ELSE sock' = "failed" /\ callerPc' = "none"
    /\ UNCHANGED <<issued, m_cmd, m_state, m_sent, m_values, m_ring_buffer, completed,
                   timeouts, wireOut, wireIn, produced, unsolicited>>
    /\ UNCHANGED sessionVars
    /\ UNCHANGED handshakeVars
    /\ UNCHANGED <<client_is_closed, clientCloseDone>>
    /\ UNCHANGED poolVars
    /\ UNCHANGED scopedVars
    /\ UNCHANGED <<codec, life, redisError, ringbuf, m_connect_awaitable>>

\* RedisClientAwaitable::reset(): the state, the sent count and the parsed
\* values are cleared; RedisClient::m_ring_buffer is not touched
reset ==
    /\ m_state' = "Invalid"
    /\ m_sent' = 0
    /\ m_values' = <<>>

\* co_await client.execute(c): execute() emplaces a new awaitable only when
\* there is none or it is Invalid, then await_suspend starts the I/O of the
\* awaitable's state
co_await_execute(c) ==
    LET fresh == m_cmd = 0 \/ m_state = "Invalid"
    IN /\ m_cmd' = IF fresh THEN c ELSE m_cmd
       /\ m_sent' = IF fresh THEN 0 ELSE m_sent
       /\ m_values' = IF fresh THEN <<>> ELSE m_values
       /\ m_state' = IF fresh THEN "Sending" ELSE m_state
       /\ callerPc' = "suspended"

\* the coroutine starts its next command
ClientCall ==
    /\ callerPc = "idle"
    /\ issued < MaxReq
    /\ issued' = issued + 1
    /\ co_await_execute(issued + 1)
    /\ UNCHANGED <<m_ring_buffer, completed, timeouts>>
    /\ UNCHANGED <<sessionVars, peerVars>>
    /\ UNCHANGED handshakeVars
    /\ UNCHANGED <<client_is_closed, clientCloseDone>>
    /\ UNCHANGED poolVars
    /\ UNCHANGED scopedVars
    /\ UNCHANGED <<codec, life, redisError, ringbuf, m_connect_awaitable>>

\* co_await returned std::nullopt and the coroutine goes on to its next
\* command: execute(c) is called while m_cmd_awaitable is not Invalid
ClientCallNext ==
    /\ callerPc = "retry"
    /\ issued < MaxReq
    /\ issued' = issued + 1
    /\ co_await_execute(issued + 1)
    /\ UNCHANGED <<m_ring_buffer, completed, timeouts>>
    /\ UNCHANGED <<sessionVars, peerVars>>
    /\ UNCHANGED handshakeVars
    /\ UNCHANGED <<client_is_closed, clientCloseDone>>
    /\ UNCHANGED poolVars
    /\ UNCHANGED scopedVars
    /\ UNCHANGED <<codec, life, redisError, ringbuf, m_connect_awaitable>>

\* co_await returned std::nullopt: the coroutine awaits the same command again
ClientRetry ==
    /\ callerPc = "retry"
    /\ co_await_execute(issued)
    /\ UNCHANGED <<issued, m_ring_buffer, completed, timeouts>>
    /\ UNCHANGED <<sessionVars, peerVars>>
    /\ UNCHANGED handshakeVars
    /\ UNCHANGED <<client_is_closed, clientCloseDone>>
    /\ UNCHANGED poolVars
    /\ UNCHANGED scopedVars
    /\ UNCHANGED <<codec, life, redisError, ringbuf, m_connect_awaitable>>

\* defective variant of ClientSendResume: every send starts at the first byte
\* of the encoded command instead of at m_sent
ClientSendResume_fromStart ==
    /\ callerPc = "suspended"
    /\ m_state = "Sending"
    /\ sock = "open"
    /\ LET m_encoded_cmd == encodeCommand(m_cmd, 1)
       IN \E k \in 1..(Len(m_encoded_cmd) - m_sent) :
            /\ wireOut' = wireOut \o SubSeq(m_encoded_cmd, 1, k)
            /\ m_sent' = m_sent + k
            /\ m_state' = IF m_sent + k < Len(m_encoded_cmd) THEN "Sending" ELSE "Receiving"
    /\ callerPc' = "retry"
    /\ UNCHANGED <<issued, m_cmd, m_values, m_ring_buffer, completed, timeouts,
                   sock, wireIn, produced, unsolicited>>
    /\ UNCHANGED sessionVars
    /\ UNCHANGED handshakeVars
    /\ UNCHANGED <<client_is_closed, clientCloseDone>>
    /\ UNCHANGED poolVars
    /\ UNCHANGED scopedVars
    /\ UNCHANGED <<codec, life, redisError, ringbuf, m_connect_awaitable>>

\* await_resume in Sending: the socket took k bytes; std::nullopt is returned,
\* and the state is Receiving once every byte is sent
ClientSendResume ==
    /\ callerPc = "suspended"
    /\ m_state = "Sending"
    /\ sock = "open"
    /\ LET m_encoded_cmd == encodeCommand(m_cmd, 1)
       IN \E k \in 1..(Len(m_encoded_cmd) - m_sent) :
            /\ wireOut' = wireOut \o SubSeq(m_encoded_cmd, m_sent + 1, m_sent + k)
            /\ m_sent' = m_sent + k
            /\ m_state' = IF m_sent + k < Len(m_encoded_cmd) THEN "Sending" ELSE "Receiving"
    /\ callerPc' = "retry"
    /\ UNCHANGED <<issued, m_cmd, m_values, m_ring_buffer, completed, timeouts,
                   sock, wireIn, produced, unsolicited>>
    /\ UNCHANGED sessionVars
    /\ UNCHANGED handshakeVars
    /\ UNCHANGED <<client_is_closed, clientCloseDone>>
    /\ UNCHANGED poolVars
    /\ UNCHANGED scopedVars
    /\ UNCHANGED <<codec, life, redisError, ringbuf, m_connect_awaitable>>

\* await_resume in Receiving: while (m_values.size() < m_expected_replies)
RECURSIVE ClientParseLoop(_)
ClientParseLoop(st) ==
    IF Len(st.values) >= m_expected_replies THEN [st EXCEPT !.out = "values"]
    ELSE IF st.ring = <<>> THEN [st EXCEPT !.out = "nullopt"]
    ELSE LET parse_result == parse(st.ring)
         IN CASE parse_result.st = "Ok" ->
                   ClientParseLoop([st EXCEPT
                       !.ring = SubSeq(@, parse_result.consumed + 1, Len(@)),
                       !.values = Append(@, RedisValue(parse_result.tok))])
              [] parse_result.st = "Incomplete" -> [st EXCEPT !.out = "nullopt"]
              [] OTHER -> [st EXCEPT !.out = "Parse"]

\* await_resume in Receiving: readv returned k bytes
ClientRecvResume ==
    /\ callerPc = "suspended"
    /\ m_state = "Receiving"
    /\ sock = "open"
    /\ \E k \in 1..Len(wireIn) :
         LET st == ClientParseLoop([ring |-> m_ring_buffer \o SubSeq(wireIn, 1, k),
                                    values |-> m_values, out |-> ""])
         IN /\ wireIn' = SubSeq(wireIn, k + 1, Len(wireIn))
            /\ m_ring_buffer' = st.ring
            /\ CASE st.out = "values" ->
                      /\ reset
                      /\ completed' = [completed EXCEPT ![issued] = Append(@, Ok(st.values))]
                      /\ callerPc' = "idle"
                 [] st.out = "nullopt" ->
                      /\ m_values' = st.values
                      /\ callerPc' = "retry"
                      /\ UNCHANGED <<m_state, m_sent, completed>>
                 [] OTHER ->
                      /\ reset
                      /\ completed' = [completed EXCEPT ![issued] = Append(@, RedisError("Parse"))]
                      /\ callerPc' = "idle"
    /\ UNCHANGED <<issued, m_cmd, timeouts, sock, wireOut, produced, unsolicited>>
    /\ UNCHANGED sessionVars
    /\ UNCHANGED handshakeVars
    /\ UNCHANGED <<client_is_closed, clientCloseDone>>
    /\ UNCHANGED poolVars
    /\ UNCHANGED scopedVars
    /\ UNCHANGED <<codec, life, redisError, ringbuf, m_connect_awaitable>>

\* await_resume with m_result set by TimeoutSupport: the deadline of
\* .timeout() passed while the coroutine was suspended on the send or the readv
ClientTimeout ==
    /\ callerPc = "suspended"
    /\ timeouts < MaxTimeouts
    /\ timeouts' = timeouts + 1
    /\ reset
    /\ completed' = [completed EXCEPT ![issued] = Append(@, RedisError("Timeout"))]
    /\ callerPc' = "idle"
    /\ UNCHANGED <<issued, m_cmd, m_ring_buffer>>
    /\ UNCHANGED <<sessionVars, peerVars>>
    /\ UNCHANGED handshakeVars
    /\ UNCHANGED <<client_is_closed, clientCloseDone>>
    /\ UNCHANGED poolVars
    /\ UNCHANGED scopedVars
    /\ UNCHANGED <<codec, life, redisError, ringbuf, m_connect_awaitable>>

\* await_resume when the send or the readv failed, or readv returned 0
ClientIoFail ==
    /\ callerPc = "suspended"
    /\ sock \in {"broken", "closed"}
    /\ reset
    /\ \E e \in IF m_state = "Sending" THEN {"Send"} ELSE {"Recv", "ConnectionClosed"} :
         completed' = [completed EXCEPT ![issued] = Append(@, RedisError(e))]
    /\ callerPc' = "idle"
    /\ UNCHANGED <<issued, m_cmd, m_ring_buffer, timeouts>>
    /\ UNCHANGED <<sessionVars, peerVars>>
    /\ UNCHANGED handshakeVars
    /\ UNCHANGED <<client_is_closed, clientCloseDone>>
    /\ UNCHANGED poolVars
    /\ UNCHANGED scopedVars
    /\ UNCHANGED <<codec, life, redisError, ringbuf, m_connect_awaitable>>

\* ----------------------------------------------------- RedisConnectionPool
Entries == 1..MaxEntries
Threads == 1..MaxThreads

PoolInit ==
    /\ pool = [m_all_connections |-> <<>>, m_available_connections |-> <<>>,
               m_is_initialized |-> FALSE, m_is_shutting_down |-> FALSE,
               m_total_acquired |-> 0, m_total_released |-> 0,
               m_total_created |-> 0, m_total_destroyed |-> 0,
               m_created_count |-> 0, m_conn |-> 0]
    /\ m_is_healthy = [e \in Entries |-> TRUE]
    /\ connected = [e \in Entries |-> FALSE]
    /\ expired = [e \in Entries |-> FALSE]
    /\ held = [e \in Entries |-> 0]
    /\ tpc = [t \in Threads |-> "idle"]
    /\ tlocal = [t \in Threads |-> <<>>]
    /\ tres = [t \in Threads |-> [st |-> "none", conn |-> 0]]
    /\ initResult = <<>>
    /\ shutdownDone = FALSE
    /\ ops = 0

\* std::find(begin, end, conn) != end
Contains(seq, e) == \E i \in 1..Len(seq) : seq[i] = e

\* it = std::find(begin, end, conn); if (it != end) erase(it)
Erase(seq, e) ==
    IF ~Contains(seq, e) THEN seq
    ELSE LET i == CHOOSE k \in 1..Len(seq) : seq[k] = e /\ \A j \in 1..(k - 1) : seq[j] # e
         IN SubSeq(seq, 1, i - 1) \o SubSeq(seq, i + 1, Len(seq))

\* PooledConnection::isClosed(): the client's m_is_closed, which nothing sets
\* on a client the pool made
PooledConnection_isClosed(e) == FALSE

\* the entry's client has completed connect(): getConnectionSync makes the
\* client and never connects it, so a new entry starts with connected FALSE
HandshakeDone(e) == connected[e]

\* getConnectionSync, when make_shared does not throw: a new entry is pushed
\* onto m_all_connections; the new entry is m_total_created of the result
getConnectionSync(p) ==
    [p EXCEPT !.m_all_connections = Append(@, p.m_total_created + 1),
              !.m_total_created = @ + 1]

\* whether one more entry fits the model's bound on entries
CanCreate(p) == p.m_total_created < MaxEntries

\* PoolInitializeAwaitable::await_suspend: k successful getConnectionSync calls
RECURSIVE CreateInitial(_, _)
CreateInitial(p, k) == IF k = 0 THEN p ELSE CreateInitial(getConnectionSync(p), k - 1)

\* co_await pool.initialize(): m_init_awaitable is made once and keeps its
\* m_created_count; made is the number of entries this call creates before
\* getConnectionSync fails or the count reaches initial_connections
PoolInitialize(t) ==
    /\ tpc[t] = "idle"
    /\ ops < MaxOps
    /\ ops' = ops + 1
    /\ \E made \in 0..MaxEntries :
         /\ pool.m_created_count + made <= initial_connections
         /\ pool.m_total_created + made <= MaxEntries
         /\ LET p == [CreateInitial(pool, made) EXCEPT !.m_created_count = @ + made]
            IN IF p.m_created_count < min_connections
               THEN /\ pool' = p
                    /\ initResult' = Append(initResult, RedisError("Connection"))
               ELSE /\ pool' = [p EXCEPT !.m_is_initialized = TRUE]
                    /\ initResult' = Append(initResult, Ok(<<>>))
    /\ UNCHANGED <<m_is_healthy, expired, held, tpc, tlocal, tres, shutdownDone>>
    /\ UNCHANGED connected
    /\ UNCHANGED nonPoolVars
    /\ UNCHANGED scopedVars
    /\ UNCHANGED <<codec, life, redisError, ringbuf, m_connect_awaitable>>

\* PoolAcquireAwaitable::await_resume for the awaitable's m_conn
AcquireResume(p) ==
    IF ~p.m_is_initialized THEN [st |-> "Internal", conn |-> 0]
    ELSE IF p.m_is_shutting_down THEN [st |-> "Internal", conn |-> 0]
    ELSE IF p.m_conn = 0 THEN [st |-> "Timeout", conn |-> 0]
    ELSE [st |-> "ok", conn |-> p.m_conn]

\* acquire() returns to its caller: the pool is p, the caller gets
\* await_resume's result and holds the entry when that is one
AcquireReturn(t, p) ==
    /\ pool' = p
    /\ tres' = [tres EXCEPT ![t] = AcquireResume(p)]
    /\ held' = IF AcquireResume(p).st = "ok"
               THEN [held EXCEPT ![p.m_conn] = @ + 1] ELSE held
    /\ tpc' = [tpc EXCEPT ![t] = "idle"]

\* co_await pool.acquire(), await_suspend up to the lock: the two flags are
\* read before m_mutex is taken; m_acquire_awaitable is made once and reused
AcquireBegin(t) ==
    /\ tpc[t] = "idle"
    /\ ops < MaxOps
    /\ ops' = ops + 1
    /\ IF ~pool.m_is_initialized \/ pool.m_is_shutting_down
       THEN AcquireReturn(t, pool)
       ELSE /\ tpc' = [tpc EXCEPT ![t] = "acq_lock"]
            /\ UNCHANGED <<pool, tres, held>>
    /\ UNCHANGED <<m_is_healthy, expired, tlocal, initResult, shutdownDone>>
    /\ UNCHANGED connected
    /\ UNCHANGED nonPoolVars
    /\ UNCHANGED scopedVars
    /\ UNCHANGED <<codec, life, redisError, ringbuf, m_connect_awaitable>>

\* await_suspend: while (!m_available_connections.empty())
RECURSIVE ScanAvailable(_)
ScanAvailable(p) ==
    IF p.m_available_connections = <<>> THEN [p |-> p, found |-> FALSE]
    ELSE LET c == Head(p.m_available_connections)
             popped == [p EXCEPT !.m_available_connections = Tail(@), !.m_conn = c]
         IN IF ~PooledConnection_isClosed(c) /\ m_is_healthy[c]
            THEN [p |-> [popped EXCEPT !.m_total_acquired = @ + 1], found |-> TRUE]
            ELSE ScanAvailable([popped EXCEPT
                     !.m_all_connections = Erase(@, c),
                     !.m_total_destroyed = @ + 1,
                     !.m_conn = 0])

\* await_suspend under m_mutex: take an idle entry, or leave the lock to make
\* a new one when m_all_connections.size() < max_connections, or give up
AcquireLocked(t) ==
    /\ tpc[t] = "acq_lock"
    /\ LET r == ScanAvailable(pool)
       IN IF r.found
          THEN /\ AcquireReturn(t, r.p)
               /\ expired' = [expired EXCEPT ![r.p.m_conn] = FALSE]
          ELSE IF Len(r.p.m_all_connections) < max_connections
          THEN /\ pool' = r.p
               /\ tpc' = [tpc EXCEPT ![t] = "acq_create"]
               /\ UNCHANGED <<tres, held, expired>>
          ELSE /\ AcquireReturn(t, r.p)
               /\ UNCHANGED expired
    /\ UNCHANGED <<m_is_healthy, tlocal, initResult, shutdownDone, ops>>
    /\ UNCHANGED connected
    /\ UNCHANGED nonPoolVars
    /\ UNCHANGED scopedVars
    /\ UNCHANGED <<codec, life, redisError, ringbuf, m_connect_awaitable>>

\* await_suspend outside the lock: getConnectionSync, then m_conn = result
AcquireCreate(t) ==
    /\ tpc[t] = "acq_create"
    /\ \E result \in BOOLEAN :
         /\ result => CanCreate(pool)
         /\ IF result
            THEN LET p == getConnectionSync(pool)
                 IN AcquireReturn(t, [p EXCEPT !.m_conn = p.m_total_created,
                                               !.m_total_acquired = @ + 1])
            ELSE AcquireReturn(t, pool)
    /\ UNCHANGED <<m_is_healthy, expired, tlocal, initResult, shutdownDone, ops>>
    /\ UNCHANGED connected
    /\ UNCHANGED nonPoolVars
    /\ UNCHANGED scopedVars
    /\ UNCHANGED <<codec, life, redisError, ringbuf, m_connect_awaitable>>

\* pool.release(conn) up to the lock: the caller gives the entry up;
\* m_is_shutting_down is read before m_mutex is taken
ReleaseBegin(t, e) ==
    /\ tpc[t] = "idle"
    /\ ops < MaxOps
    /\ held[e] > 0
    /\ ops' = ops + 1
    /\ held' = [held EXCEPT ![e] = @ - 1]
    /\ IF pool.m_is_shutting_down
       THEN UNCHANGED <<tpc, tlocal>>
       ELSE /\ tpc' = [tpc EXCEPT ![t] = "rel_lock"]
            /\ tlocal' = [tlocal EXCEPT ![t] = <<e>>]
    /\ UNCHANGED <<pool, m_is_healthy, expired, tres, initResult, shutdownDone>>
    /\ UNCHANGED connected
    /\ UNCHANGED nonPoolVars
    /\ UNCHANGED scopedVars
    /\ UNCHANGED <<codec, life, redisError, ringbuf, m_connect_awaitable>>

\* release under m_mutex: an unhealthy entry, or any entry while the pool is
\* over max_connections, is erased; else the entry goes to the idle queue
ReleaseLocked(t) ==
    /\ tpc[t] = "rel_lock"
    /\ LET conn == tlocal[t][1]
       IN IF PooledConnection_isClosed(conn) \/ ~m_is_healthy[conn]
          THEN pool' = [pool EXCEPT !.m_all_connections = Erase(@, conn),
                                    !.m_total_destroyed = @ + 1]
          ELSE IF Len(pool.m_all_connections) > max_connections
          THEN pool' = [pool EXCEPT !.m_all_connections = Erase(@, conn),
                                    !.m_total_destroyed = @ + 1]
          ELSE pool' = [pool EXCEPT !.m_available_connections = Append(@, conn),
                                    !.m_total_released = @ + 1]
    /\ tpc' = [tpc EXCEPT ![t] = "idle"]
    /\ tlocal' = [tlocal EXCEPT ![t] = <<>>]
    /\ UNCHANGED <<m_is_healthy, expired, held, tres, initResult, shutdownDone, ops>>
    /\ UNCHANGED connected
    /\ UNCHANGED nonPoolVars
    /\ UNCHANGED scopedVars
    /\ UNCHANGED <<codec, life, redisError, ringbuf, m_connect_awaitable>>

\* expandPool(1): current_size is read under the lock and compared with
\* max_connections after the lock is dropped
ExpandBegin(t) ==
    /\ tpc[t] = "idle"
    /\ ops < MaxOps
    /\ ops' = ops + 1
    /\ tpc' = [tpc EXCEPT ![t] = IF Len(pool.m_all_connections) >= max_connections
                                THEN "idle" ELSE "exp_create"]
    /\ UNCHANGED <<pool, m_is_healthy, expired, held, tlocal, tres, initResult, shutdownDone>>
    /\ UNCHANGED connected
    /\ UNCHANGED nonPoolVars
    /\ UNCHANGED scopedVars
    /\ UNCHANGED <<codec, life, redisError, ringbuf, m_connect_awaitable>>

\* getConnectionSync followed by m_available_connections.push(result.value())
CreateIdle(p) ==
    LET q == getConnectionSync(p)
    IN [q EXCEPT !.m_available_connections = Append(@, q.m_total_created)]

\* expandPool(1): getConnectionSync, then the new entry joins the idle queue
ExpandCreate(t) ==
    /\ tpc[t] = "exp_create"
    /\ \E result \in BOOLEAN :
         /\ result => CanCreate(pool)
         /\ pool' = IF result THEN CreateIdle(pool) ELSE pool
    /\ tpc' = [tpc EXCEPT ![t] = "idle"]
    /\ UNCHANGED <<m_is_healthy, expired, held, tlocal, tres, initResult, shutdownDone, ops>>
    /\ UNCHANGED connected
    /\ UNCHANGED nonPoolVars
    /\ UNCHANGED scopedVars
    /\ UNCHANGED <<codec, life, redisError, ringbuf, m_connect_awaitable>>

\* warmup(): current_size = m_all_connections.size() under the lock
WarmupBegin(t) ==
    /\ tpc[t] = "idle"
    /\ ops < MaxOps
    /\ ops' = ops + 1
    /\ tlocal' = [tlocal EXCEPT ![t] = << Len(pool.m_all_connections) >>]
    /\ tpc' = [tpc EXCEPT ![t] = "fill_loop"]
    /\ UNCHANGED <<pool, m_is_healthy, expired, held, tres, initResult, shutdownDone>>
    /\ UNCHANGED connected
    /\ UNCHANGED nonPoolVars
    /\ UNCHANGED scopedVars
    /\ UNCHANGED <<codec, life, redisError, ringbuf, m_connect_awaitable>>

\* warmup() and triggerHealthCheck(): while (current_size < min_connections)
\* make an entry, put it in the idle queue, read the size again
FillLoop(t) ==
    /\ tpc[t] = "fill_loop"
    /\ IF tlocal[t][1] < min_connections
       THEN \E result \in BOOLEAN :
              /\ result => CanCreate(pool)
              /\ IF result
                 THEN /\ pool' = CreateIdle(pool)
                      /\ tlocal' = [tlocal EXCEPT ![t] = << Len(pool.m_all_connections) + 1 >>]
                      /\ UNCHANGED tpc
                 ELSE /\ tpc' = [tpc EXCEPT ![t] = "idle"]
                      /\ tlocal' = [tlocal EXCEPT ![t] = <<>>]
                      /\ UNCHANGED pool
       ELSE /\ tpc' = [tpc EXCEPT ![t] = "idle"]
            /\ tlocal' = [tlocal EXCEPT ![t] = <<>>]
            /\ UNCHANGED pool
    /\ UNCHANGED <<m_is_healthy, expired, held, tres, initResult, shutdownDone, ops>>
    /\ UNCHANGED connected
    /\ UNCHANGED nonPoolVars
    /\ UNCHANGED scopedVars
    /\ UNCHANGED <<codec, life, redisError, ringbuf, m_connect_awaitable>>

\* checkConnectionHealthSync(conn)
checkConnectionHealthSync(conn) == ~PooledConnection_isClosed(conn) /\ m_is_healthy[conn]

\* triggerHealthCheck() under the lock: the entries found unhealthy are
\* dropped from both collections; then the size is read for the refill loop
HealthCheck(t) ==
    /\ tpc[t] = "idle"
    /\ ops < MaxOps
    /\ ops' = ops + 1
    /\ LET unhealthy_connections ==
               SelectSeq(pool.m_all_connections, LAMBDA c : ~checkConnectionHealthSync(c))
           p == IF unhealthy_connections = <<>> THEN pool
                ELSE [pool EXCEPT
                        !.m_available_connections = SelectSeq(@, LAMBDA c : m_is_healthy[c]),
                        !.m_all_connections = SelectSeq(@, LAMBDA c : m_is_healthy[c]),
                        !.m_total_destroyed = @ + Len(unhealthy_connections)]
       IN /\ pool' = p
          /\ tlocal' = [tlocal EXCEPT ![t] = << Len(p.m_all_connections) >>]
    /\ tpc' = [tpc EXCEPT ![t] = "fill_loop"]
    /\ UNCHANGED <<m_is_healthy, expired, held, tres, initResult, shutdownDone>>
    /\ UNCHANGED connected
    /\ UNCHANGED nonPoolVars
    /\ UNCHANGED scopedVars
    /\ UNCHANGED <<codec, life, redisError, ringbuf, m_connect_awaitable>>

\* triggerIdleCleanup(), first lock: every idle entry whose idle time is over
\* idle_timeout leaves the idle queue while m_all_connections.size(), which
\* this loop does not change, is over min_connections
IdleCleanup(t) ==
    /\ tpc[t] = "idle"
    /\ ops < MaxOps
    /\ ops' = ops + 1
    /\ LET Evict(c) == expired[c] /\ Len(pool.m_all_connections) > min_connections
           idle_connections == SelectSeq(pool.m_available_connections, Evict)
       IN /\ pool' = [pool EXCEPT !.m_available_connections =
                                       SelectSeq(@, LAMBDA c : ~Evict(c))]
          /\ IF idle_connections = <<>>
             THEN UNCHANGED <<tpc, tlocal>>
             ELSE /\ tpc' = [tpc EXCEPT ![t] = "idle_erase"]
                  /\ tlocal' = [tlocal EXCEPT ![t] = idle_connections]
    /\ UNCHANGED <<m_is_healthy, expired, held, tres, initResult, shutdownDone>>
    /\ UNCHANGED connected
    /\ UNCHANGED nonPoolVars
    /\ UNCHANGED scopedVars
    /\ UNCHANGED <<codec, life, redisError, ringbuf, m_connect_awaitable>>

\* for (auto& conn : idle_connections): erase conn from m_all_connections
RECURSIVE EraseEach(_, _)
EraseEach(p, conns) ==
    IF conns = <<>> THEN p
    ELSE EraseEach(
             IF Contains(p.m_all_connections, Head(conns))
             THEN [p EXCEPT !.m_all_connections = Erase(@, Head(conns)),
                            !.m_total_destroyed = @ + 1]
             ELSE p,
             Tail(conns))

\* triggerIdleCleanup(), second lock
IdleErase(t) ==
    /\ tpc[t] = "idle_erase"
    /\ pool' = EraseEach(pool, tlocal[t])
    /\ tpc' = [tpc EXCEPT ![t] = "idle"]
    /\ tlocal' = [tlocal EXCEPT ![t] = <<>>]
    /\ UNCHANGED <<m_is_healthy, expired, held, tres, initResult, shutdownDone, ops>>
    /\ UNCHANGED connected
    /\ UNCHANGED nonPoolVars
    /\ UNCHANGED scopedVars
    /\ UNCHANGED <<codec, life, redisError, ringbuf, m_connect_awaitable>>

\* shutdown(): the flag is tested and set before m_mutex is taken
ShutdownBegin(t) ==
    /\ tpc[t] = "idle"
    /\ ops < MaxOps
    /\ ops' = ops + 1
    /\ IF pool.m_is_shutting_down
       THEN UNCHANGED <<pool, tpc>>
       ELSE /\ pool' = [pool EXCEPT !.m_is_shutting_down = TRUE]
            /\ tpc' = [tpc EXCEPT ![t] = "shut_clear"]
    /\ UNCHANGED <<m_is_healthy, expired, held, tlocal, tres, initResult, shutdownDone>>
    /\ UNCHANGED connected
    /\ UNCHANGED nonPoolVars
    /\ UNCHANGED scopedVars
    /\ UNCHANGED <<codec, life, redisError, ringbuf, m_connect_awaitable>>

\* shutdown() under the lock: both collections are emptied; then
\* m_is_initialized = false and shutdown returns
ShutdownClear(t) ==
    /\ tpc[t] = "shut_clear"
    /\ pool' = [pool EXCEPT !.m_all_connections = <<>>,
                            !.m_available_connections = <<>>,
                            !.m_is_initialized = FALSE]
    /\ shutdownDone' = TRUE
    /\ tpc' = [tpc EXCEPT ![t] = "idle"]
    /\ UNCHANGED <<m_is_healthy, expired, held, tlocal, tres, initResult, ops>>
    /\ UNCHANGED connected
    /\ UNCHANGED nonPoolVars
    /\ UNCHANGED scopedVars
    /\ UNCHANGED <<codec, life, redisError, ringbuf, m_connect_awaitable>>

\* a caller that holds the entry calls conn->setHealthy(false)
SetUnhealthy(e) ==
    /\ held[e] > 0
    /\ m_is_healthy[e]
    /\ m_is_healthy' = [m_is_healthy EXCEPT ![e] = FALSE]
    /\ UNCHANGED <<pool, expired, held, tpc, tlocal, tres, initResult, shutdownDone, ops>>
    /\ UNCHANGED connected
    /\ UNCHANGED nonPoolVars
    /\ UNCHANGED scopedVars
    /\ UNCHANGED <<codec, life, redisError, ringbuf, m_connect_awaitable>>

\* a caller that holds the entry connects its client itself:
\* co_await conn->get()->connect(host, port) succeeds
CallerConnect(e) ==
    /\ held[e] > 0
    /\ ~connected[e]
    /\ connected' = [connected EXCEPT ![e] = TRUE]
    /\ UNCHANGED <<pool, m_is_healthy, expired, held, tpc, tlocal, tres, initResult,
                   shutdownDone, ops>>
    /\ UNCHANGED nonPoolVars
    /\ UNCHANGED scopedVars
    /\ UNCHANGED <<codec, life, redisError, ringbuf, m_connect_awaitable>>

\* time passes: the entry's idle time goes over idle_timeout
Expire(e) ==
    /\ Contains(pool.m_all_connections, e)
    /\ ~expired[e]
    /\ expired' = [expired EXCEPT ![e] = TRUE]
    /\ UNCHANGED <<pool, m_is_healthy, held, tpc, tlocal, tres, initResult, shutdownDone, ops>>
    /\ UNCHANGED connected
    /\ UNCHANGED nonPoolVars
    /\ UNCHANGED scopedVars
    /\ UNCHANGED <<codec, life, redisError, ringbuf, m_connect_awaitable>>

\* initialize, acquire and release
PoolCore(t) ==
    \/ PoolInitialize(t)
    \/ AcquireBegin(t) \/ AcquireLocked(t) \/ AcquireCreate(t)
    \/ \E e \in Entries : ReleaseBegin(t, e)
    \/ ReleaseLocked(t)

\* the maintenance operations
PoolMaintain(t) ==
    \/ ExpandBegin(t) \/ ExpandCreate(t)
    \/ WarmupBegin(t) \/ FillLoop(t)
    \/ HealthCheck(t)
    \/ IdleCleanup(t) \/ IdleErase(t)

PoolShutdown(t) == ShutdownBegin(t) \/ ShutdownClear(t)

PoolEnv == \E e \in Entries : SetUnhealthy(e) \/ CallerConnect(e) \/ Expire(e)

\* ------------------------------------------------------- ScopedConnection
Handles == 1..MaxHandles

ScopedInit ==
    /\ handles = [h \in Handles |-> [st |-> "unborn", m_pool |-> FALSE, m_conn |-> 0]]
    /\ wrapped = 0
    /\ releaseCalls = [e \in 1..MaxWrapped |-> 0]

\* ScopedConnection::release() without m_conn = nullptr after the call
ScopedRelease_keepConn(hs, rc, h) ==
    IF hs[h].m_pool /\ hs[h].m_conn # 0
    THEN [hs |-> hs, rc |-> [rc EXCEPT ![hs[h].m_conn] = @ + 1]]
    ELSE [hs |-> hs, rc |-> rc]

\* ScopedConnection::release() on handle h: if (m_pool && m_conn) the pool's
\* release is called with the entry and m_conn becomes null
ScopedRelease(hs, rc, h) ==
    IF hs[h].m_pool /\ hs[h].m_conn # 0
    THEN [hs |-> [hs EXCEPT ![h].m_conn = 0],
          rc |-> [rc EXCEPT ![hs[h].m_conn] = @ + 1]]
    ELSE [hs |-> hs, rc |-> rc]

\* ScopedConnection(pool, conn): a new handle wraps an entry just acquired
ScopedConstruct(h) ==
    /\ handles[h].st = "unborn"
    /\ wrapped < MaxWrapped
    /\ wrapped' = wrapped + 1
    /\ handles' = [handles EXCEPT ![h] = [st |-> "alive", m_pool |-> TRUE,
                                          m_conn |-> wrapped + 1]]
    /\ UNCHANGED releaseCalls
    /\ UNCHANGED <<nonPoolVars, poolVars>>
    /\ UNCHANGED <<codec, life, redisError, ringbuf, m_connect_awaitable>>

\* ScopedConnection(ScopedConnection&& other): takes other's m_pool and
\* m_conn; std::move leaves other.m_conn null, and other.m_pool = nullptr
ScopedMoveConstruct(h, other) ==
    /\ h # other
    /\ handles[h].st = "unborn"
    /\ handles[other].st = "alive"
    /\ handles' = [handles EXCEPT
                      ![h] = [st |-> "alive", m_pool |-> handles[other].m_pool,
                              m_conn |-> handles[other].m_conn],
                      ![other] = [st |-> "alive", m_pool |-> FALSE, m_conn |-> 0]]
    /\ UNCHANGED <<wrapped, releaseCalls>>
    /\ UNCHANGED <<nonPoolVars, poolVars>>
    /\ UNCHANGED <<codec, life, redisError, ringbuf, m_connect_awaitable>>

\* operator=(ScopedConnection&& other): nothing on self-assignment; else
\* release(), then take other's members and null other.m_pool
ScopedMoveAssign(h, other) ==
    /\ handles[h].st = "alive"
    /\ handles[other].st = "alive"
    /\ IF h = other
       THEN UNCHANGED <<handles, releaseCalls>>
       ELSE LET r == ScopedRelease(handles, releaseCalls, h)
            IN /\ handles' = [r.hs EXCEPT
                                 ![h] = [st |-> "alive", m_pool |-> r.hs[other].m_pool,
                                         m_conn |-> r.hs[other].m_conn],
                                 ![other] = [st |-> "alive", m_pool |-> FALSE, m_conn |-> 0]]
               /\ releaseCalls' = r.rc
    /\ UNCHANGED wrapped
    /\ UNCHANGED <<nonPoolVars, poolVars>>
    /\ UNCHANGED <<codec, life, redisError, ringbuf, m_connect_awaitable>>

\* an explicit scoped.release()
ScopedExplicitRelease(h) ==
    /\ handles[h].st = "alive"
    /\ LET r == ScopedRelease(handles, releaseCalls, h)
       IN /\ handles' = r.hs
          /\ releaseCalls' = r.rc
    /\ UNCHANGED wrapped
    /\ UNCHANGED <<nonPoolVars, poolVars>>
    /\ UNCHANGED <<codec, life, redisError, ringbuf, m_connect_awaitable>>

\* ~ScopedConnection(): release(), and the object is gone
ScopedDestroy(h) ==
    /\ handles[h].st = "alive"
    /\ LET r == ScopedRelease(handles, releaseCalls, h)
       IN /\ handles' = [r.hs EXCEPT ![h].st = "destroyed"]
          /\ releaseCalls' = r.rc
    /\ UNCHANGED wrapped
    /\ UNCHANGED <<nonPoolVars, poolVars>>
    /\ UNCHANGED <<codec, life, redisError, ringbuf, m_connect_awaitable>>

ScopedStep ==
    \E h \in Handles :
        \/ ScopedConstruct(h)
        \/ \E other \in Handles : ScopedMoveConstruct(h, other) \/ ScopedMoveAssign(h, other)
        \/ ScopedExplicitRelease(h)
        \/ ScopedDestroy(h)

\* ------------------------------------------------------- RESP codec, bytes
\* A byte is a one-character string; a buffer and a std::string are sequences
\* of bytes.  Offsets are counted from 0 as in the source, so the byte at
\* offset i is data[i + 1].
CR == "\r"
LF == "\n"
DigitChars == <<"0", "1", "2", "3", "4", "5", "6", "7", "8", "9">>

IsDigit(c) == \E d \in 1..10 : DigitChars[d] = c

DigitValue(c) == (CHOOSE d \in 1..10 : DigitChars[d] = c) - 1

\* the decimal digits of n >= 0
RECURSIVE Digits(_)
Digits(n) ==
    IF n < 10 THEN << DigitChars[n + 1] >>
    ELSE Digits(n \div 10) \o << DigitChars[(n % 10) + 1] >>

\* std::to_string of an integer
to_string(n) == IF n < 0 THEN << "-" >> \o Digits(-n) ELSE Digits(n)

RedisReply(type, val) == [type |-> type, val |-> val]

\* std::make_pair(consumed, reply)
RespOk(consumed, reply) == [st |-> "Ok", consumed |-> consumed, reply |-> reply]

\* std::unexpected(ParseError::kind)
RespErr(kind) == [st |-> kind, consumed |-> 0, reply |-> RedisReply("none", <<>>)]

\* RespParser::findCRLF as parse's callees use it (length >= 1): the first
\* offset i >= offset with i < length - 1 where "\r\n" starts, or none (-1)
RespParser_findCRLF_last(data, offset) ==
    LET at == {i \in offset..(Len(data) - 2) : data[i + 1] = CR /\ data[i + 2] = LF}
    IN IF at = {} THEN -1 ELSE CHOOSE i \in at : \A j \in at : j <= i

RespParser_findCRLF(data, offset) ==
    LET at == {i \in offset..(Len(data) - 2) : data[i + 1] = CR /\ data[i + 2] = LF}
    IN IF at = {} THEN -1 ELSE CHOOSE i \in at : \A j \in at : i <= j

\* result = result * 10 + (data[i] - '0') over data[i..length)
RECURSIVE Accumulate(_, _, _)
Accumulate(data, i, result) ==
    IF i > Len(data) THEN result
    ELSE Accumulate(data, i + 1, result * 10 + DigitValue(data[i]))

\* RespParser::parseIntegerValue: an optional '-' or '+', then digits only
\* (none is accepted and gives 0); the model's buffers are far too short for
\* the int64 to overflow
parseIntegerValue(data) ==
    IF Len(data) = 0 THEN [ok |-> FALSE, v |-> 0]
    ELSE LET i == IF data[1] \in {"-", "+"} THEN 2 ELSE 1
         IN IF \E k \in i..Len(data) : ~IsDigit(data[k])
            THEN [ok |-> FALSE, v |-> 0]
            ELSE [ok |-> TRUE,
                  v |-> IF data[1] = "-" THEN 0 - Accumulate(data, i, 0)
                        ELSE Accumulate(data, i, 0)]

\* the text between the type byte and the CRLF at offset crlf_pos
Line(data, crlf_pos) == SubSeq(data, 2, crlf_pos)

RespParser_parseSimpleString(data) ==
    LET crlf_pos == RespParser_findCRLF(data, 1)
    IN IF crlf_pos = -1 THEN RespErr("Incomplete")
       ELSE RespOk(crlf_pos + 2, RedisReply("SimpleString", Line(data, crlf_pos)))

RespParser_parseError(data) ==
    LET crlf_pos == RespParser_findCRLF(data, 1)
    IN IF crlf_pos = -1 THEN RespErr("Incomplete")
       ELSE RespOk(crlf_pos + 2, RedisReply("Error", Line(data, crlf_pos)))

RespParser_parseInteger(data) ==
    LET crlf_pos == RespParser_findCRLF(data, 1)
    IN IF crlf_pos = -1 THEN RespErr("Incomplete")
       ELSE LET int_result == parseIntegerValue(Line(data, crlf_pos))
            IN IF ~int_result.ok THEN RespErr("InvalidFormat")
               ELSE RespOk(crlf_pos + 2, RedisReply("Integer", << int_result.v >>))

RespParser_parseBulkString(data) ==
    LET crlf_pos == RespParser_findCRLF(data, 1)
    IN IF crlf_pos = -1 THEN RespErr("Incomplete")
       ELSE LET len_result == parseIntegerValue(Line(data, crlf_pos))
                str_len == len_result.v
                content_start == crlf_pos + 2
                content_end == content_start + str_len
            IN IF ~len_result.ok THEN RespErr("InvalidFormat")
               ELSE IF str_len = -1 THEN RespOk(crlf_pos + 2, RedisReply("Null", <<>>))
               ELSE IF str_len < 0 THEN RespErr("InvalidLength")
               ELSE IF content_end + 2 > Len(data) THEN RespErr("Incomplete")
               ELSE IF data[content_end + 1] # CR \/ data[content_end + 2] # LF
               THEN RespErr("InvalidFormat")
               ELSE RespOk(content_end + 2,
                           RedisReply("BulkString",
                                      SubSeq(data, content_start + 1, content_end)))

\* std::stod(str) does not throw: after leading white space and an optional
\* sign the text starts with a digit (the byte values of the model have no
\* '.', and none of the letters of "inf" and "nan")
RECURSIVE StodConverts(_)
StodConverts(str) ==
    IF str = <<>> THEN FALSE
    ELSE IF Head(str) \in {CR, LF} THEN StodConverts(Tail(str))
    ELSE IF Head(str) \in {"-", "+"} THEN Len(str) >= 2 /\ IsDigit(str[2])
    ELSE IsDigit(Head(str))

RespParser_parseDouble(data) ==
    LET crlf_pos == RespParser_findCRLF(data, 1)
    IN IF crlf_pos = -1 THEN RespErr("Incomplete")
       ELSE IF ~StodConverts(Line(data, crlf_pos)) THEN RespErr("InvalidFormat")
       ELSE RespOk(crlf_pos + 2, RedisReply("Double", Line(data, crlf_pos)))

RespParser_parseBoolean(data) ==
    IF Len(data) < 4 THEN RespErr("Incomplete")
    ELSE IF data[2] \notin {"t", "f"} THEN RespErr("InvalidFormat")
    ELSE IF data[3] # CR \/ data[4] # LF THEN RespErr("InvalidFormat")
    ELSE RespOk(4, RedisReply("Boolean", << data[2] >>))

RECURSIVE RespParser_parse(_)
RECURSIVE ParseElements(_, _, _, _)

\* the element loop of parseArray, parseMap and parseSet: n more elements are
\* parsed from offset on, each after the test offset >= length
ParseElements(data, offset, n, elements) ==
    IF n = 0 THEN [st |-> "Ok", offset |-> offset, elements |-> elements]
    ELSE IF offset >= Len(data) THEN [st |-> "Incomplete", offset |-> 0, elements |-> <<>>]
    ELSE LET elem_result == RespParser_parse(SubSeq(data, offset + 1, Len(data)))
         IN IF elem_result.st # "Ok"
            THEN [st |-> elem_result.st, offset |-> 0, elements |-> <<>>]
            ELSE ParseElements(data, offset + elem_result.consumed, n - 1,
                               Append(elements, elem_result.reply))

RespParser_parseArray(data) ==
    LET crlf_pos == RespParser_findCRLF(data, 1)
    IN IF crlf_pos = -1 THEN RespErr("Incomplete")
       ELSE LET len_result == parseIntegerValue(Line(data, crlf_pos))
                array_len == len_result.v
            IN IF ~len_result.ok THEN RespErr("InvalidFormat")
               ELSE IF array_len = -1 THEN RespOk(crlf_pos + 2, RedisReply("Null", <<>>))
               ELSE IF array_len < 0 THEN RespErr("InvalidLength")
               ELSE LET r == ParseElements(data, crlf_pos + 2, array_len, <<>>)
                    IN IF r.st # "Ok" THEN RespErr(r.st)
                       ELSE RespOk(r.offset, RedisReply("Array", r.elements))

RespParser_parseMap(data) ==
    LET crlf_pos == RespParser_findCRLF(data, 1)
    IN IF crlf_pos = -1 THEN RespErr("Incomplete")
       ELSE LET len_result == parseIntegerValue(Line(data, crlf_pos))
                map_size == len_result.v
            IN IF ~len_result.ok THEN RespErr("InvalidFormat")
               ELSE IF map_size < 0 THEN RespErr("InvalidLength")
               ELSE LET r == ParseElements(data, crlf_pos + 2, 2 * map_size, <<>>)
                    IN IF r.st # "Ok" THEN RespErr(r.st)
                       ELSE RespOk(r.offset,
                                   RedisReply("Map",
                                       [i \in 1..map_size |->
                                           << r.elements[2 * i - 1], r.elements[2 * i] >>]))

RespParser_parseSet(data) ==
    LET crlf_pos == RespParser_findCRLF(data, 1)
    IN IF crlf_pos = -1 THEN RespErr("Incomplete")
       ELSE LET len_result == parseIntegerValue(Line(data, crlf_pos))
                set_size == len_result.v
            IN IF ~len_result.ok THEN RespErr("InvalidFormat")
               ELSE IF set_size < 0 THEN RespErr("InvalidLength")
               ELSE LET r == ParseElements(data, crlf_pos + 2, set_size, <<>>)
                    IN IF r.st # "Ok" THEN RespErr(r.st)
                       ELSE RespOk(r.offset, RedisReply("Set", r.elements))

\* RespParser::parse(data, length): dispatch on the first byte
RespParser_parse(data) ==
    IF Len(data) < 1 THEN RespErr("Incomplete")
    ELSE CASE data[1] = "+" -> RespParser_parseSimpleString(data)
           [] data[1] = "-" -> RespParser_parseError(data)
           [] data[1] = ":" -> RespParser_parseInteger(data)
           [] data[1] = "$" -> RespParser_parseBulkString(data)
           [] data[1] = "*" -> RespParser_parseArray(data)
           [] data[1] = "," -> RespParser_parseDouble(data)
           [] data[1] = "#" -> RespParser_parseBoolean(data)
           [] data[1] = "%" -> RespParser_parseMap(data)
           [] data[1] = "~" -> RespParser_parseSet(data)
           [] OTHER -> RespErr("InvalidType")

\* RespEncoder::encodeBulkString with the CRLF after the body left out
RespEncoder_encodeBulkString_noTrailer(str) ==
    << "$" >> \o to_string(Len(str)) \o << CR, LF >> \o str

\* RespEncoder::encodeBulkString
RespEncoder_encodeBulkString(str) ==
    << "$" >> \o to_string(Len(str)) \o << CR, LF >> \o str \o << CR, LF >>

\* result += encodeBulkString(elem) for each element
RECURSIVE EncodeEach(_)
EncodeEach(elements) ==
    IF elements = <<>> THEN <<>>
    ELSE RespEncoder_encodeBulkString(Head(elements)) \o EncodeEach(Tail(elements))

\* RespEncoder::encodeArray
RespEncoder_encodeArray(elements) ==
    << "*" >> \o to_string(Len(elements)) \o << CR, LF >> \o EncodeEach(elements)

\* RespEncoder::encodeCommand(cmd_parts)
RespEncoder_encodeCommand(cmd_parts) ==
    IF cmd_parts = <<>> THEN << "*", "0", CR, LF >>
    ELSE RespEncoder_encodeArray(cmd_parts)

\* ---------------------------------------------- the codec fed byte by byte
\* all sequences over S of length at most n
SeqsUpTo(S, n) == UNION {[1..k -> S] : k \in 0..n}

RECURSIVE Flatten(_)
Flatten(seqs) == IF seqs = <<>> THEN <<>> ELSE Head(seqs) \o Flatten(Tail(seqs))

\* the parts a command is made of: empty, one byte, a CRLF inside the part,
\* and a part whose length has two digits
PartSet == { <<>>, << "a" >>, << CR, LF >>, [i \in 1..10 |-> "a"] }

\* non-empty commands of at most MaxParts parts
Commands == SeqsUpTo(PartSet, MaxParts) \ { <<>> }

\* well-formed frames that are no aggregates
ScalarFrames ==
    { << "+", "a", CR, LF >>, << "+", CR, LF >>, << "-", "a", CR, LF >>,
      << ":", "1", CR, LF >>, << ":", "-", "1", CR, LF >>,
      << "$", "-", "1", CR, LF >>, << "$", "0", CR, LF, CR, LF >>,
      << "$", "1", CR, LF, "a", CR, LF >>, << "$", "2", CR, LF, CR, LF, CR, LF >>,
      << ",", "1", CR, LF >>, << "#", "t", CR, LF >>, << "#", "f", CR, LF >>,
      << "*", "-", "1", CR, LF >> }

\* the frames that aggregates are built of: two scalars and a nested array
ElementFrames ==
    { << "+", "a", CR, LF >>, << "$", "1", CR, LF, "a", CR, LF >>,
      << "*", "1", CR, LF, ":", "1", CR, LF >> }

\* Array, Set and Push frames of at most MaxCount elements, and Map frames
\* of at most MaxCount \div 2 pairs (their keys and values alternate)
AggregateFrames ==
    { << m >> \o to_string(Len(es)) \o << CR, LF >> \o Flatten(es) :
          m \in {"*", "~", ">"}, es \in SeqsUpTo(ElementFrames, MaxCount) }
    \cup { << "%" >> \o to_string(Len(es) \div 2) \o << CR, LF >> \o Flatten(es) :
          es \in {x \in SeqsUpTo(ElementFrames, MaxCount) : Len(x) % 2 = 0} }

\* the well-formed reply frames of the spec's table
WellFormedFrames == ScalarFrames \cup AggregateFrames

\* a length-prefixed type byte with a negative length or count, and CRLF
NegativeHeaders ==
    { << m >> \o to_string(n) \o << CR, LF >> : m \in {"$", "*", "%", "~", ">"}, n \in {-1, -2} }

\* bytes that arrive in place of a frame's next byte
JunkBytes == {"x", CR, LF, "1"}

CodecInit == codec = [kind |-> "none", parts |-> <<>>, frame |-> <<>>, buf |-> <<>>, junk |-> 0]

\* a caller encodes cmd_parts; the bytes will be parsed back
CodecEncode(cmd_parts) ==
    /\ codec.kind = "none"
    /\ codec' = [codec EXCEPT !.kind = "command", !.parts = cmd_parts,
                              !.frame = RespEncoder_encodeCommand(cmd_parts)]
    /\ UNCHANGED nonCodecVars

\* a server is about to send the frame
CodecFrame(frame, kind) ==
    /\ codec.kind = "none"
    /\ codec' = [codec EXCEPT !.kind = kind, !.frame = frame]
    /\ UNCHANGED nonCodecVars

\* the next byte of the frame arrives in the buffer
CodecFeed ==
    /\ codec.junk = 0
    /\ Len(codec.buf) < Len(codec.frame)
    /\ codec' = [codec EXCEPT !.buf = Append(@, codec.frame[Len(codec.buf) + 1])]
    /\ UNCHANGED nonCodecVars

\* any other byte arrives in the buffer
CodecAppend(b) ==
    /\ codec.junk < MaxJunk
    /\ codec' = [codec EXCEPT !.buf = Append(@, b), !.junk = @ + 1]
    /\ UNCHANGED nonCodecVars

CodecServer ==
    \/ \E frame \in WellFormedFrames : CodecFrame(frame, "frame")
    \/ \E frame \in NegativeHeaders : CodecFrame(frame, "header")

CodecJunk == \E b \in JunkBytes : CodecAppend(b)

CodecCommand == \E cmd_parts \in Commands : CodecEncode(cmd_parts)

\* the number of "*1\r\n" headers the frame starts with
RECURSIVE NestingDepth(_)
NestingDepth(frame) ==
    IF Len(frame) >= 4 /\ SubSeq(frame, 1, 4) = << "*", "1", CR, LF >>
    THEN 1 + NestingDepth(SubSeq(frame, 5, Len(frame)))
    ELSE 0

\* a server is about to send an integer, or an array whose only element is
\* the frame it was about to send
CodecNest ==
    /\ codec.kind \in {"none", "nest"}
    /\ codec.buf = <<>>
    /\ NestingDepth(codec.frame) <= MaxDepth
    /\ codec' = [codec EXCEPT
           !.kind = "nest",
           !.frame = IF codec.kind = "none" THEN << ":", "1", CR, LF >>
                     ELSE << "*", "1", CR, LF >> \o @]
    /\ UNCHANGED nonCodecVars

\* ------------------------------------------- the tasks of AsyncRedisSession
LifeInit ==
    life = [sock |-> "none", pc |-> "idle", m_is_closed |-> FALSE,
            writers |-> 0, readers |-> 0, connects |-> 0]

\* connect(...): m_socket is replaced by a new socket; when it connects,
\* receiveReply and sendCommand are spawned, whatever ran before; with a
\* password or a db index the coroutine goes on to AUTH or SELECT
LifeConnect(connect_result, handshake) ==
    /\ life.pc = "idle"
    /\ life.connects < MaxConnects
    /\ life' = IF connect_result
               THEN [life EXCEPT !.sock = "open",
                                 !.readers = @ + 1,
                                 !.writers = @ + 1,
                                 !.pc = IF handshake THEN "handshake" ELSE "idle",
                                 !.connects = @ + 1]
               ELSE [life EXCEPT !.sock = "failed", !.connects = @ + 1]
    /\ UNCHANGED nonLifeVars

\* connect(...) resumes from AUTH or SELECT: on a refusal, and when execute
\* rejected the command because m_is_closed is set, it calls close(), which
\* returns at once when m_is_closed is set
LifeHandshake(ok) ==
    /\ life.pc = "handshake"
    /\ ok => ~life.m_is_closed
    /\ life' = IF ok \/ life.m_is_closed
               THEN [life EXCEPT !.pc = "idle"]
               ELSE [life EXCEPT !.pc = "idle", !.sock = "closed", !.m_is_closed = TRUE]
    /\ UNCHANGED nonLifeVars

\* close(): the socket is closed and m_is_closed is set; no task is told
LifeClose ==
    /\ life.pc = "idle"
    /\ ~life.m_is_closed
    /\ life' = [life EXCEPT !.sock = IF @ \in {"open", "broken"} THEN "closed" ELSE @,
                            !.m_is_closed = TRUE]
    /\ UNCHANGED nonLifeVars

\* the connection fails or the peer closes it
LifeBreak ==
    /\ life.sock = "open"
    /\ life' = [life EXCEPT !.sock = "broken"]
    /\ UNCHANGED nonLifeVars

\* receiveReply: recv fails with m_waiters empty and the coroutine returns;
\* a reader whose socket was replaced by a later connect may return as well.
\* sendCommand has no return: its while (true) has no exit
LifeReaderExit ==
    /\ life.readers > 0
    /\ life.sock # "open" \/ life.readers > 1
    /\ life' = [life EXCEPT !.readers = @ - 1]
    /\ UNCHANGED nonLifeVars

LifeStep ==
    \/ \E connect_result \in BOOLEAN, handshake \in BOOLEAN :
           LifeConnect(connect_result, handshake)
    \/ \E ok \in BOOLEAN : LifeHandshake(ok)
    \/ LifeClose \/ LifeBreak \/ LifeReaderExit

\* ------------------------------------------------------------- RedisError
\* enum RedisErrorType: the enumerators in the order of their declaration;
\* the first has the value 0
RedisErrorType ==
    << "REDIS_ERROR_TYPE_SUCCESS", "REDIS_ERROR_TYPE_URL_INVALID_ERROR",
       "REDIS_ERROR_TYPE_HOST_INVALID_ERROR", "REDIS_ERROR_TYPE_PORT_INVALID_ERROR",
       "REDIS_ERROR_TYPE_DB_INDEX_INVALID_ERROR",
       "REDIS_ERROR_TYPE_ADDRESS_TYPE_INVALID_ERROR",
       "REDIS_ERROR_TYPE_VERSION_INVALID_ERROR", "REDIS_ERROR_TYPE_CONNECTION_ERROR",
       "REDIS_ERROR_TYPE_FREE_REDISOBJ_ERROR", "REDIS_ERROR_TYPE_COMMAND_ERROR",
       "REDIS_ERROR_TYPE_TIMEOUT_ERROR", "REDIS_ERROR_TYPE_AUTH_ERROR",
       "REDIS_ERROR_TYPE_INVALID_ERROR", "REDIS_ERROR_TYPE_UNKNOWN_ERROR",
       "REDIS_ERROR_TYPE_PARSE_ERROR", "REDIS_ERROR_TYPE_SEND_ERROR",
       "REDIS_ERROR_TYPE_RECV_ERROR", "REDIS_ERROR_TYPE_BUFFER_OVERFLOW_ERROR",
       "REDIS_ERROR_TYPE_NETWORK_ERROR", "REDIS_ERROR_TYPE_CONNECTION_CLOSED",
       "REDIS_ERROR_TYPE_INTERNAL_ERROR" >>

\* const char* msg[]: the table of RedisError.cc; msg[i] of the code is
\* element i + 1 here
msg ==
    << "success", "url invalid error", "host invalid error", "port invalid error",
       "db index invalid error", "address type invalid error", "version invalid error",
       "connection error", "free redis object error", "command error", "timeout error",
       "auth error", "invalid error", "unknown error", "parse error", "send error",
       "recv error", "buffer overflow error", "network error", "connection closed" >>

\* static_cast<int>(m_type)
static_cast_int(type) ==
    (CHOOSE i \in 1..Len(RedisErrorType) : RedisErrorType[i] = type) - 1

\* the extra messages the callers pass: none, the pool's and the awaitable's
ExtraMessages ==
    { "", "Connection pool not initialized", "RedisClientAwaitable in Invalid state" }

\* what reading one element past the end of msg can do: the bytes behind the
\* table are taken for a pointer, and the read through it faults or yields
\* bytes that are no message of the table
PastTheTable == { "fault", "garbage" }

ErrorInit == redisError = [pc |-> "none", m_type |-> "", m_extra_msg |-> "",
                           message |-> [st |-> "none", text |-> "", extra |-> ""]]

\* RedisError::RedisError(type) and RedisError::RedisError(type, extra_msg)
RedisError_construct(type, extra_msg) ==
    /\ redisError.pc = "none"
    /\ redisError' = [redisError EXCEPT !.pc = "constructed", !.m_type = type,
                                        !.m_extra_msg = extra_msg]
    /\ UNCHANGED nonErrorVars

\* RedisError::message(): msg[static_cast<int>(m_type)], followed by
\* " extra:" and m_extra_msg when that is not empty; the index is not tested
RedisError_message ==
    /\ redisError.pc = "constructed"
    /\ LET index == static_cast_int(redisError.m_type)
       IN IF index < Len(msg)
          THEN redisError' = [redisError EXCEPT
                   !.pc = "returned",
                   !.message = [st |-> "defined", text |-> msg[index + 1],
                                extra |-> redisError.m_extra_msg]]
          ELSE \E outcome \in PastTheTable :
                   redisError' = [redisError EXCEPT
                       !.pc = "returned",
                       !.message = [st |-> outcome, text |-> "",
                                    extra |-> redisError.m_extra_msg]]
    /\ UNCHANGED nonErrorVars

ErrorStep ==
    \/ \E i \in 1..Len(RedisErrorType), extra_msg \in ExtraMessages :
           RedisError_construct(RedisErrorType[i], extra_msg)
    \/ RedisError_message

\* ------------------------------------------ RedisClient's ring buffer, bytes
\* RingBuffer::getReadIovecs(): the readable bytes as at most two segments,
\* from the read cursor to the end of the storage, then from its start
getReadIovecs(rb) ==
    LET first == IF rb.size <= RingCapacity - rb.read THEN rb.size
                 ELSE RingCapacity - rb.read
    IN IF rb.size = 0 THEN <<>>
       ELSE IF first = rb.size THEN << first >>
       ELSE << first, rb.size - first >>

\* RingBuffer::produce(n)
produce(rb, n) == [rb EXCEPT !.size = @ + n]

\* RingBuffer::consume(n)
consume(rb, n) == [rb EXCEPT !.read = (@ + n) % RingCapacity, !.size = @ - n]

RingInit == ringbuf = [read |-> 0, size |-> 0, len |-> 0, iov_len |-> 0]

\* RedisClientAwaitable::await_resume in Receiving: readv stored n bytes in
\* the writable segments; produce(n); data is the start of the first readable
\* segment and len the sum of both segments' lengths; parse(data, len) finds
\* the frame incomplete or consumes some of the len bytes
RingRecvResume(n, consumed) ==
    /\ n <= RingCapacity - ringbuf.size
    /\ LET rb == produce(ringbuf, n)
           read_iovecs == getReadIovecs(rb)
           len == IF Len(read_iovecs) > 1 THEN read_iovecs[1] + read_iovecs[2]
                  ELSE read_iovecs[1]
       IN /\ consumed <= len
          /\ ringbuf' = [consume(rb, consumed) EXCEPT !.len = len,
                                                      !.iov_len = read_iovecs[1]]
    /\ UNCHANGED nonRingVars

RingStep == \E n \in 1..RingCapacity, consumed \in 0..RingCapacity : RingRecvResume(n, consumed)

\* ------------------------------------------------- RedisConnectAwaitable
\* {"AUTH", m_password}
AuthCmd == << << "A", "U", "T", "H" >>, << "p" >> >>

\* {"SELECT", std::to_string(m_db_index)}
SelectCmd(db_index) == << << "S", "E", "L", "E", "C", "T" >>, to_string(db_index) >>

\* the value of a member the constructor leaves uninitialized
Indeterminate == -1

\* RedisConnectAwaitable's constructor: m_state is Invalid, m_encoded_cmd is
\* empty and m_sent has no initializer
RedisConnectAwaitable(aw, auth, db_index) ==
    [aw EXCEPT !.has_value = TRUE, !.m_state = "Invalid", !.auth = auth,
               !.m_db_index = db_index, !.m_encoded_cmd = <<>>, !.m_sent = Indeterminate]

ConnectInit ==
    m_connect_awaitable =
        [has_value |-> FALSE, m_state |-> "Invalid", auth |-> FALSE, m_db_index |-> 0,
         m_encoded_cmd |-> <<>>, m_sent |-> 0,
         socket |-> "none", pc |-> "idle", calls |-> 0,
         args |-> [auth |-> FALSE, db_index |-> 0],
         tcp |-> FALSE, auth_sent |-> FALSE, auth_ok |-> FALSE,
         select_sent |-> FALSE, select_ok |-> FALSE, result |-> "none"]

\* RedisConnectAwaitable::await_suspend: pc tells what the coroutine waits
\* for; "resume" is the return of false, after which await_resume runs at once
RedisConnectAwaitable_await_suspend(aw) ==
    CASE aw.m_state = "Invalid" ->
           [aw EXCEPT !.m_state = "Connecting", !.pc = "connect"]
      [] aw.m_state = "Connecting" ->
           IF ~aw.auth
           THEN [aw EXCEPT !.m_state = "SelectingDB", !.pc = "stuck"]
           ELSE [aw EXCEPT !.m_state = "Authenticating",
                           !.m_encoded_cmd = RespEncoder_encodeCommand(AuthCmd),
                           !.m_sent = 0, !.pc = "send"]
      [] aw.m_state = "Authenticating" ->
           [aw EXCEPT !.pc = "send"]
      [] aw.m_state = "SelectingDB" ->
           IF aw.m_db_index = 0
           THEN [aw EXCEPT !.m_state = "Done", !.pc = "resume"]
           ELSE [aw EXCEPT !.m_encoded_cmd = RespEncoder_encodeCommand(SelectCmd(aw.m_db_index)),
                           !.m_sent = 0, !.pc = "send"]
      [] OTHER -> [aw EXCEPT !.pc = "resume"]

\* return std::unexpected(...) with m_state = State::Invalid
ConnectFailed(aw) == [aw EXCEPT !.m_state = "Invalid", !.result = "error", !.pc = "idle"]

\* return {}
ConnectReturned(aw) == [aw EXCEPT !.result = "ok", !.pc = "idle"]

\* the bytes of m_encoded_cmd that are not sent; with m_encoded_cmd empty the
\* test m_sent < m_encoded_cmd.size() fails whatever m_sent holds
Unsent(aw) == IF aw.m_encoded_cmd = <<>> THEN 0 ELSE Len(aw.m_encoded_cmd) - aw.m_sent

\* the states Authenticating and SelectingDB of await_resume: the send took k
\* bytes or failed; after the last byte the reply is read and parsed
ConnectCommandResume(aw, io, k) ==
    IF io = "send_fail" THEN ConnectFailed(aw)
    ELSE LET sent == IF aw.m_encoded_cmd = <<>> THEN aw ELSE [aw EXCEPT !.m_sent = @ + k]
             whole == sent.m_encoded_cmd # <<>> /\ sent.m_sent = Len(sent.m_encoded_cmd)
             a == IF sent.m_state = "Authenticating"
                  THEN [sent EXCEPT !.auth_sent =
                           @ \/ (whole /\ sent.m_encoded_cmd = RespEncoder_encodeCommand(AuthCmd))]
                  ELSE [sent EXCEPT !.select_sent = @ \/ whole]
         IN IF k < Unsent(aw) THEN ConnectReturned(sent)
            ELSE CASE io \in {"recv_fail", "closed", "parse_error", "value_error"} ->
                        ConnectFailed(a)
                   [] io = "incomplete" -> ConnectReturned(a)
                   [] OTHER ->
                        IF a.m_state = "Authenticating"
                        THEN ConnectReturned([a EXCEPT
                                 !.auth_ok = a.auth_sent,
                                 !.m_state = IF a.m_db_index = 0 THEN "Done"
                                             ELSE "SelectingDB"])
                        ELSE ConnectReturned([a EXCEPT !.select_ok = a.select_sent,
                                                       !.m_state = "Done"])

\* RedisConnectAwaitable::await_resume
RedisConnectAwaitable_await_resume(aw, io, k) ==
    CASE aw.m_state = "Connecting" ->
           IF io = "connect_fail"
           THEN ConnectFailed([aw EXCEPT !.socket = "failed"])
           ELSE ConnectReturned([aw EXCEPT
                    !.socket = "connected", !.tcp = TRUE,
                    !.auth_sent = FALSE, !.auth_ok = FALSE,
                    !.select_sent = FALSE, !.select_ok = FALSE,
                    !.m_state = IF aw.auth THEN "Authenticating"
                                ELSE IF aw.m_db_index = 0 THEN "Done"
                                ELSE "SelectingDB"])
      [] aw.m_state \in {"Authenticating", "SelectingDB"} ->
           ConnectCommandResume(aw, io, k)
      [] aw.m_state = "Done" ->
           ConnectReturned([aw EXCEPT !.m_state = "Invalid"])
      [] OTHER -> ConnectFailed(aw)

\* co_await client.connect(ip, port, username, password, db_index): connect()
\* emplaces an awaitable only when there is none or it is Invalid; then
\* await_suspend, and await_resume at once when that returns false
RedisClient_connect_await(auth, db_index) ==
    /\ m_connect_awaitable.pc = "idle"
    /\ m_connect_awaitable.calls < MaxConnects
    /\ LET aw == m_connect_awaitable
           called == [aw EXCEPT !.calls = @ + 1, !.tcp = FALSE, !.result = "none",
                                !.args = [auth |-> auth, db_index |-> db_index]]
           emplaced == IF ~aw.has_value \/ aw.m_state = "Invalid"
                       THEN RedisConnectAwaitable(called, auth, db_index)
                       ELSE called
           suspended == RedisConnectAwaitable_await_suspend(emplaced)
       IN m_connect_awaitable' =
              IF suspended.pc = "resume"
              THEN RedisConnectAwaitable_await_resume(suspended, "none", 0)
              ELSE suspended
    /\ UNCHANGED nonConnectVars

\* what the socket reports to a suspended connect
ConnectOutcomes ==
    { "connect_ok", "connect_fail", "send_fail", "recv_fail", "closed", "incomplete",
      "parse_error", "value_error", "value" }

\* the I/O the coroutine waits for completes and await_resume runs; a socket
\* that is not connected fails the send
ConnectIoResume(io, k) ==
    /\ m_connect_awaitable.pc \in {"connect", "send"}
    /\ IF m_connect_awaitable.pc = "connect"
       THEN io \in {"connect_ok", "connect_fail"} /\ k = 0
       ELSE /\ io \notin {"connect_ok", "connect_fail"}
            /\ m_connect_awaitable.socket # "connected" => io = "send_fail"
            /\ IF io = "send_fail" THEN k = 0
               ELSE IF Unsent(m_connect_awaitable) = 0 THEN k = 0
               ELSE k \in 1..Unsent(m_connect_awaitable)
            /\ (io # "send_fail" /\ k < Unsent(m_connect_awaitable)) => io = "incomplete"
    /\ m_connect_awaitable' = RedisConnectAwaitable_await_resume(m_connect_awaitable, io, k)
    /\ UNCHANGED nonConnectVars

\* co_await client.close() between two connects: m_socket.close(); the
\* awaitable is left as it is
ConnectClose ==
    /\ m_connect_awaitable.pc = "idle"
    /\ m_connect_awaitable.socket = "connected"
    /\ m_connect_awaitable' = [m_connect_awaitable EXCEPT !.socket = "closed",
                                                          !.result = "none"]
    /\ UNCHANGED nonConnectVars

\* the longest command the awaitable sends
MaxEncoded == Len(RespEncoder_encodeCommand(SelectCmd(MaxDb)))

ConnectStep ==
    \/ \E auth \in BOOLEAN, db_index \in 0..MaxDb : RedisClient_connect_await(auth, db_index)
    \/ \E io \in ConnectOutcomes, k \in 0..MaxEncoded : ConnectIoResume(io, k)
    \/ ConnectClose

Submit == execute \/ \E n \in 0..MaxBatch, e \in BOOLEAN : pipeline(n, e)

Orderly ==
    \/ connect \/ Submit
    \/ WriterRecv \/ WriterSend \/ WriterResume
    \/ ReaderRecv \/ ServerAnswer

IoFailure == WriterSendFail \/ ReaderRecvFail

\* the steps of connect() after the socket has connected
Handshake == HandshakeAuthResume \/ HandshakeSelectResume \/ HandshakeAbort

\* RedisClient::isClosed()
RedisClient_isClosed == client_is_closed

\* co_await client.close(): close() returns m_socket.close(), nothing else
RedisClient_close ==
    /\ callerPc # "none"
    /\ ~clientCloseDone
    /\ sock' = "closed"
    /\ clientCloseDone' = TRUE
    /\ UNCHANGED <<callerPc, issued, m_cmd, m_state, m_sent, m_values, m_ring_buffer,
                   completed, timeouts, client_is_closed>>
    /\ UNCHANGED <<wireOut, wireIn, produced, unsolicited>>
    /\ UNCHANGED <<sessionVars, handshakeVars>>
    /\ UNCHANGED poolVars
    /\ UNCHANGED scopedVars
    /\ UNCHANGED <<codec, life, redisError, ringbuf, m_connect_awaitable>>

\* a coroutine that awaits each command until it has values or an error
ClientOrderly ==
    \/ RedisClient_connect
    \/ ClientCall \/ ClientRetry
    \/ ClientSendResume \/ ClientRecvResume
    \/ ServerAnswer

Init ==
    /\ SessionInit /\ ClientInit /\ PoolInit /\ ScopedInit /\ CodecInit /\ LifeInit
    /\ ErrorInit /\ RingInit /\ ConnectInit

Next ==
    \/ Orderly
    \/ IoFailure
    \/ closeStart \/ closeFinish
    \/ ServerPush \/ ServerGarbage \/ SocketBreak \/ PeerShutdown
    \/ ClientOrderly
    \/ ClientTimeout \/ ClientIoFail \/ ClientCallNext
    \/ connectHandshake \/ Handshake
    \/ RedisClient_close
    \/ \E t \in Threads : PoolCore(t) \/ PoolMaintain(t) \/ PoolShutdown(t)
    \/ PoolEnv
    \/ ScopedStep
    \/ CodecCommand \/ CodecServer \/ CodecFeed \/ CodecJunk \/ CodecNest
    \/ LifeStep
    \/ ErrorStep \/ RingStep \/ ConnectStep

\* every fault: socket errors, close(), unsolicited frames
Spec == Init /\ [][Next]_vars

\* a server that answers every request in order and a socket that stays up
SpecOrderly == Init /\ [][Orderly]_vars

\* an orderly server, and a caller that closes the session at any time
SpecClose == Init /\ [][Orderly \/ IoFailure \/ closeStart \/ closeFinish]_vars

\* an orderly RESP3 server that also sends push frames
SpecPush == Init /\ [][Orderly \/ ServerPush]_vars

\* a server that also sends bytes that are no RESP frame
SpecGarbage == Init /\ [][Orderly \/ ServerGarbage]_vars

\* an orderly server and a connection that can fail at any time
SpecBreak == Init /\ [][Orderly \/ IoFailure \/ SocketBreak]_vars

\* the steps the runtime and the server take whenever they can: a coroutine
\* whose awaited operation has completed is resumed, and the server answers
\* the commands it has received
Progress ==
    /\ WF_vars(WriterRecv) /\ WF_vars(WriterSend) /\ WF_vars(WriterResume)
    /\ WF_vars(ReaderRecv) /\ WF_vars(ReaderRecvFail) /\ WF_vars(ServerAnswer)

\* a server that answers every request and may then shut the connection
\* down, with coroutines and server that keep taking their steps
SpecHalfClose ==
    Init /\ [][Orderly \/ ReaderRecvFail \/ PeerShutdown]_vars /\ Progress

\* connect with AUTH and SELECT, a server that may refuse either, and a
\* connection that can fail at any time
SpecHandshake ==
    Init /\ [][\/ connectHandshake \/ Handshake \/ closeFinish
              \/ WriterRecv \/ WriterSend \/ WriterResume \/ ReaderRecv \/ ServerAnswer
              \/ IoFailure \/ SocketBreak]_vars

\* a RedisClient, an orderly server, and awaits that can time out
SpecTimeout == Init /\ [][ClientOrderly \/ ClientTimeout]_vars

\* a RedisClient that is closed at any time after it has connected
SpecClientClose ==
    Init /\ [][ClientOrderly \/ ClientTimeout \/ RedisClient_close \/ ClientIoFail]_vars

\* one thread uses the pool: initialize, acquire, release and maintenance
SpecPoolSeq == Init /\ [][PoolCore(1) \/ PoolMaintain(1) \/ PoolEnv]_vars

\* every thread uses the pool, shutdown included
SpecPool ==
    Init /\ [][\/ \E t \in Threads : PoolCore(t) \/ PoolMaintain(t) \/ PoolShutdown(t)
              \/ PoolEnv]_vars

\* every thread calls initialize, acquire, release and shutdown
SpecPoolShutdown ==
    Init /\ [][\E t \in Threads : PoolCore(t) \/ PoolShutdown(t)]_vars

\* ScopedConnection objects are made, moved, assigned, released and destroyed
SpecScoped == Init /\ [][ScopedStep]_vars

\* a command is encoded and its bytes are parsed back as they arrive
SpecEncode == Init /\ [][CodecCommand \/ CodecFeed]_vars

\* a server sends a frame; any prefix of it may be followed by other bytes
SpecCodec == Init /\ [][CodecServer \/ CodecFeed \/ CodecJunk]_vars

\* a coroutine that co_awaits each RedisClient command once, and a thread
\* that uses a pool
SpecReuse == Init /\ [][ClientOrderly \/ ClientCallNext \/ PoolCore(1)]_vars

\* connect, close and connect again on one session, in any order
SpecLife == Init /\ [][LifeStep]_vars

\* the session and the RedisClient, each with an orderly server and a socket
\* that takes any part of what it is handed
SpecShortWrites == Init /\ [][Orderly \/ ClientOrderly]_vars

\* replies nested deeper and deeper
SpecNest == Init /\ [][CodecNest \/ CodecFeed]_vars

\* RedisError objects of every type, and their messages
SpecError == Init /\ [][ErrorStep]_vars

\* receptions into RedisClient's ring buffer
SpecRing == Init /\ [][RingStep]_vars

\* a coroutine that awaits RedisClient::connect again and again
SpecConnect == Init /\ [][ConnectStep]_vars

\* ------------------------------------------------------------------ claims
\* the request channel is empty, the writer is idle and every byte the two
\* sides sent has been consumed
Drained ==
    /\ channel = <<>>
    /\ writerPc = "idle"
    /\ wireOut = <<>>
    /\ wireIn = <<>>
    /\ buffer = <<>>

\* the call went onto the request channel
Accepted(id) ==
    /\ id <= Len(calls)
    /\ calls[id].n >= 1
    /\ calls[id].valid
    /\ delivered[id] # << RedisError("ConnectionClosed") >>

C2_PipelinePositional ==
    /\ \A i \in 1..Len(channel) :
          /\ channel[i].batch_size = calls[channel[i].id].n
          /\ \A j \in 1..Len(channel) : channel[j].id = channel[i].id => j = i
    /\ \A id \in Ids :
          (Accepted(id) /\ calls[id].kind = "pipeline" /\ delivered[id] # <<>>) =>
              /\ Len(delivered[id]) = 1
              /\ delivered[id][1].ok
              /\ Len(delivered[id][1].vals) = calls[id].n
              /\ \A i \in 1..calls[id].n :
                    /\ delivered[id][1].vals[i] = produced[id][i]
                    /\ delivered[id][1].vals[i].req = id
                    /\ delivered[id][1].vals[i].idx = i

C2_Witness ==
    \E id \in Ids :
        /\ Accepted(id)
        /\ calls[id].kind = "pipeline"
        /\ calls[id].n = 2
        /\ Len(delivered[id]) = 1
        /\ delivered[id][1].ok
        /\ delivered[id][1].vals[1].type = "Error"
        /\ delivered[id][1].vals[2].type = "SimpleString"

\* bytes of call id handed to the socket so far
BytesWritten(id) ==
    Cardinality({i \in 1..Len(wireOut) : wireOut[i].req = id})
        + Len(encodeCommand(id, 1)) * Len(produced[id])

FullyWritten(id) == BytesWritten(id) = Len(encodeBatch(id, calls[id].n))

\* C3: for accepted requests a before b, no byte of b is written before all
\* bytes of a are (unless a's send failed), and b gets no reply before a is
\* completed
C3_SubmissionOrder ==
    \A a \in Ids, b \in Ids :
        (a < b /\ Accepted(a) /\ Accepted(b)) =>
            /\ BytesWritten(b) > 0 =>
                  \/ FullyWritten(a)
                  \/ delivered[a] = << RedisError("Network") >>
            /\ (delivered[b] # <<>> /\ delivered[b][1].ok) => delivered[a] # <<>>

C3_Witness ==
    /\ Accepted(1) /\ Accepted(2)
    /\ calls[1].n = 2
    /\ FullyWritten(1)
    /\ BytesWritten(2) = 1
    /\ delivered[1] # <<>> /\ delivered[1][1].ok
    /\ delivered[2] = <<>>

\* C4: on a RedisClient where awaits can time out, every command that
\* completes with values has the replies the server produced for that command
C4_TimeoutNeverMisroutes ==
    \A id \in Ids :
        \A i \in 1..Len(completed[id]) :
            completed[id][i].ok =>
                \A j \in 1..Len(completed[id][i].vals) :
                    completed[id][i].vals[j].req = id

\* connect() has made its call for the handshake step
HasCall(kind) == \E i \in 1..Len(calls) : calls[i].kind = kind

\* the handshake step was answered with a reply that is no Error
StepSucceeded(kind) ==
    /\ HasCall(kind)
    /\ Len(delivered[HandshakeCall(kind)]) = 1
    /\ delivered[HandshakeCall(kind)][1].ok
    /\ delivered[HandshakeCall(kind)][1].vals[1].type # "Error"

\* the handshake step was answered with an Error reply
StepRefused(kind) ==
    /\ HasCall(kind)
    /\ Len(delivered[HandshakeCall(kind)]) = 1
    /\ delivered[HandshakeCall(kind)][1].ok
    /\ delivered[HandshakeCall(kind)][1].vals[1].type = "Error"

\* C11: connect sends AUTH only with a password and SELECT only with a db
\* index that is not 0 and only after AUTH succeeded; an Error reply to AUTH
\* ends connect with Auth, one to SELECT with DbIndexInvalid, in both cases
\* with the session closed and no later step sent; success is notified only
\* after every required step succeeded; connect notifies at most once
C11_HandshakeInOrder ==
    /\ Len(connectResult) <= 1
    /\ HasCall("auth") => hsCfg.password
    /\ HasCall("select") =>
          /\ hsCfg.db_index # 0
          /\ hsCfg.password => (StepSucceeded("auth") /\ HandshakeCall("auth") < HandshakeCall("select"))
    /\ connectResult = << Ok(<<>>) >> =>
          /\ hsCfg.password => StepSucceeded("auth")
          /\ hsCfg.db_index # 0 => StepSucceeded("select")
    /\ (StepRefused("auth") /\ hsPc \in {"done", "failed"}) =>
          connectResult = << RedisError("Auth") >>
    /\ (StepRefused("select") /\ hsPc \in {"done", "failed"}) =>
          connectResult = << RedisError("DbIndexInvalid") >>
    /\ connectResult = << RedisError("Auth") >> =>
          /\ sock = "closed" /\ m_is_closed
          /\ ~HasCall("select")
    /\ connectResult = << RedisError("DbIndexInvalid") >> =>
          /\ sock = "closed" /\ m_is_closed

C11_Witness ==
    /\ hsCfg.password
    /\ StepSucceeded("auth")
    /\ StepRefused("select")
    /\ connectResult = << RedisError("DbIndexInvalid") >>

\* C12: once co_await close() has returned on a RedisClient, isClosed() on
\* that client is true
C12_ClosedClientIsClosed ==
    clientCloseDone => RedisClient_isClosed

\* C5: when close() completes, every batch still outstanding (accepted and
\* not completed) is completed, once, with ConnectionClosed
C5_CloseFailsOutstanding ==
    [][(closePc = "closing" /\ closePc' = "done") =>
          \A id \in Ids :
              (Accepted(id) /\ delivered[id] = <<>>) =>
                  delivered'[id] = << RedisError("ConnectionClosed") >>]_vars

\* C6: a call made while m_is_closed is set is notified ConnectionClosed at
\* once and puts nothing on the request channel or the socket
C6_ClosedRejects ==
    [][(m_is_closed /\ Len(calls') = Len(calls) + 1) =>
          /\ delivered'[Len(calls')] = << RedisError("ConnectionClosed") >>
          /\ channel' = channel
          /\ wireOut' = wireOut]_vars

C6_Witness ==
    /\ m_is_closed
    /\ \E a \in Ids, b \in Ids :
          /\ a <= Len(calls) /\ b <= Len(calls)
          /\ calls[a].kind = "execute" /\ calls[b].kind = "pipeline"
          /\ delivered[a] = << RedisError("ConnectionClosed") >>
          /\ delivered[b] = << RedisError("ConnectionClosed") >>

\* C7: once the reader has met bytes that fail to parse (not Incomplete), the
\* head batch has completed with a Parse error and the session is closed
C7_ParseErrorCloses ==
    parseFailed =>
        /\ m_is_closed
        /\ \E id \in Ids : delivered[id] = << RedisError("Parse") >>

\* C8: when a socket write fails, the batch being written and every batch in
\* the pending deque are failed with Network, the session is marked closed
\* and the writer exits
C8_WriteFailureFailsAll ==
    [][(writerPc = "sending" /\ delivered'[cur.id] # delivered[cur.id]) =>
          /\ delivered'[cur.id] = << RedisError("Network") >>
          /\ \A i \in 1..Len(m_waiters) :
                delivered'[m_waiters[i].id] = << RedisError("Network") >>
          /\ m_waiters' = <<>>
          /\ m_is_closed'
          /\ writerPc' = "exited"]_vars

\* C9: when the reader has exited after failing pending batches on a read
\* error or EOF, no batch is left pending and the session is closed
C9_ReaderFailureCloses ==
    (/\ readerPc = "exited"
     /\ \E id \in Ids :
           /\ Accepted(id) /\ FullyWritten(id)
           /\ delivered[id] = << RedisError("Network") >>) =>
        /\ m_waiters = <<>>
        /\ m_is_closed

\* C10: with push frames anywhere in the reply stream, what each caller is
\* given is what it would be given without them: the replies the server
\* produced for its own request
C10_PushNeverRouted ==
    \A id \in Ids :
        (Accepted(id) /\ delivered[id] # <<>>) =>
            delivered[id] = << Ok(produced[id]) >>

\* getStats(): total_connections, available_connections, active_connections
total_connections == Len(pool.m_all_connections)
available_connections == Len(pool.m_available_connections)
active_connections == total_connections - available_connections

\* C13: under any interleaving of concurrent acquire, release, expandPool,
\* warmup and triggerHealthCheck calls the number of entries in the pool
\* never exceeds max_connections
C13_TotalAtMostMax == total_connections <= max_connections

\* C14: at every point the statistics of getStats satisfy
\* total_acquired - total_released = active_connections and
\* active_connections <= total_connections
C14_StatsBalance ==
    /\ pool.m_total_acquired - pool.m_total_released = active_connections
    /\ active_connections <= total_connections

\* the entry is on its way through release() or through the second half of
\* triggerIdleCleanup()
InTransit(e) ==
    \E t \in Threads : tpc[t] \in {"rel_lock", "idle_erase"} /\ Contains(tlocal[t], e)

\* C15: an entry is in the idle queue if and only if it belongs to the pool,
\* no caller holds it and it is not being torn down
C15_IdleIffFree ==
    \A e \in Entries :
        Contains(pool.m_available_connections, e)
            <=> /\ Contains(pool.m_all_connections, e)
                /\ held[e] = 0
                /\ ~InTransit(e)

\* the pool is at max_connections and has no entry to hand out: whatever is
\* in the idle queue is held by a caller
Exhausted ==
    /\ total_connections >= max_connections
    /\ \A e \in Entries : Contains(pool.m_available_connections, e) => held[e] > 0

\* C16: when the pool is exhausted, an acquire that completes with no
\* release in between fails with Timeout; it never completes with an entry
C16_ExhaustedAcquireWaits ==
    [][\A t \in Threads :
          (Exhausted /\ tpc[t] = "acq_lock" /\ tpc'[t] = "idle")
              => tres'[t].st = "Timeout"]_vars

\* thread t's acquire() returns in this step
AcquireCompletes(t) ==
    \/ tpc[t] \in {"acq_lock", "acq_create"} /\ tpc'[t] = "idle"
    \/ tpc[t] = "idle" /\ tres'[t] # tres[t]

\* C17: after shutdown() has returned every acquire() returns an error and
\* the pool holds no entries: m_all_connections and the idle queue are empty
\* and stay empty, also when shutdown() runs concurrently with an acquire()
\* or a release()
C17_ShutdownIsFinal ==
    [][shutdownDone =>
          /\ pool'.m_all_connections = <<>>
          /\ pool'.m_available_connections = <<>>
          /\ \A t \in Threads : AcquireCompletes(t) => tres'[t].st # "ok"]_vars

\* C18: every entry that acquire() returns and every entry in the idle queue
\* has completed the full handshake
C18_AcquirableIsConnected ==
    /\ \A e \in Entries : Contains(pool.m_available_connections, e) => HandshakeDone(e)
    /\ \A t \in Threads : tres[t].st = "ok" => HandshakeDone(tres[t].conn)

\* C19: triggerIdleCleanup evicts only entries whose idle time exceeds
\* idle_timeout and leaves at least min_connections entries in the pool
C19_CleanupKeepsMin ==
    [][\A t \in Threads :
          (tpc[t] = "idle_erase" /\ tpc'[t] = "idle")
              => /\ Len(pool'.m_all_connections) >= min_connections
                 /\ \A e \in Entries :
                        (Contains(pool.m_all_connections, e)
                           /\ ~Contains(pool'.m_all_connections, e)) => expired[e]]_vars

\* the handles that will still release entry e
Owners(e) ==
    {h \in Handles : handles[h].st = "alive" /\ handles[h].m_pool /\ handles[h].m_conn = e}

\* C20: for every entry wrapped in a ScopedConnection the pool's release is
\* called exactly once: until then exactly one live handle owns the entry,
\* afterwards none does, and a moved-from or released handle releases nothing
C20_ReleasedExactlyOnce ==
    \A e \in 1..MaxWrapped :
        IF e <= wrapped
        THEN releaseCalls[e] + Cardinality(Owners(e)) = 1
        ELSE releaseCalls[e] = 0 /\ Owners(e) = {}

\* every handle has been destroyed, one of them born by move construction,
\* and every entry has been wrapped and released
C20_Witness ==
    /\ wrapped = MaxWrapped
    /\ \A h \in Handles : handles[h].st = "destroyed"
    /\ \A e \in 1..MaxWrapped : releaseCalls[e] = 1

\* C21: every call of initialize() reports success, with the pool marked
\* initialized, if and only if at least min_connections entries are in the
\* pool when it returns; a repeated call and a call after shutdown() included
C21_InitializeNeedsMin ==
    [][initResult' # initResult =>
          LET r == initResult'[Len(initResult')]
          IN /\ r.ok <=> Len(pool'.m_all_connections) >= min_connections
             /\ r.ok => pool'.m_is_initialized]_vars

\* C22: the encoding of a non-empty command of N parts starts with "*N\r\n",
\* and parsing all of its bytes yields an Array of N BulkStrings whose bodies
\* are the parts, with consumed equal to the encoded length
C22_CommandRoundTrip ==
    (codec.kind = "command" /\ codec.buf = codec.frame) =>
        LET N == Len(codec.parts)
            header == << "*" >> \o to_string(N) \o << CR, LF >>
            r == RespParser_parse(codec.buf)
        IN /\ Len(codec.frame) >= Len(header)
           /\ SubSeq(codec.frame, 1, Len(header)) = header
           /\ r.st = "Ok"
           /\ r.consumed = Len(codec.frame)
           /\ r.reply.type = "Array"
           /\ Len(r.reply.val) = N
           /\ \A i \in 1..N :
                 /\ r.reply.val[i].type = "BulkString"
                 /\ r.reply.val[i].val = codec.parts[i]

\* a command of two parts, one with a two-digit length and one that is a
\* CRLF, has been encoded and all of its bytes have been parsed back
C22_Witness ==
    /\ codec.kind = "command"
    /\ codec.parts = << [i \in 1..10 |-> "a"], << CR, LF >> >>
    /\ codec.buf = codec.frame
    /\ RespParser_parse(codec.buf).st = "Ok"

\* a byte has arrived in the buffer in this step
BufferGrows == codec'.buf # codec.buf

ProperPrefix ==
    /\ codec.kind = "frame"
    /\ codec.junk = 0
    /\ Len(codec.buf) < Len(codec.frame)

\* C24: parse of every proper prefix of a well-formed frame, the empty
\* prefix and a prefix cut inside a nested aggregate included, returns
\* Incomplete and consumes zero bytes
C24_ProperPrefixIncomplete ==
    ProperPrefix =>
        /\ RespParser_parse(codec.buf).st = "Incomplete"
        /\ RespParser_parse(codec.buf).consumed = 0

\* C24 for the nine frame kinds parse dispatches on: every proper prefix of
\* a well-formed frame that is not a Push is Incomplete with zero consumed
C24_SupportedPrefixIncomplete ==
    (ProperPrefix /\ codec.frame[1] # ">") =>
        /\ RespParser_parse(codec.buf).st = "Incomplete"
        /\ RespParser_parse(codec.buf).consumed = 0

\* the first bytes of the frame kinds in the dispatch table
TypeBytes == {"+", "-", ":", "$", "*", ",", "#", "%", "~", ">"}

\* all bytes of a header with a negative length or count are in the buffer
HeaderArrived == codec.kind = "header" /\ codec.buf = codec.frame

\* C25: for every length-prefixed frame type a length or count of -1 parses
\* to Null and any other negative length to InvalidLength, and a buffer
\* whose first byte is no type byte parses to InvalidType
C25_NegativeLengths ==
    /\ HeaderArrived =>
          LET r == RespParser_parse(codec.buf)
          IN IF codec.frame[3] = "1"
             THEN r.st = "Ok" /\ r.reply.type = "Null"
             ELSE r.st = "InvalidLength"
    /\ (codec.buf # <<>> /\ codec.buf[1] \notin TypeBytes) =>
          RespParser_parse(codec.buf).st = "InvalidType"

\* C25 for BulkString and Array, the two types whose parse functions test
\* for a length of -1 before they test for a negative length
C25_BulkAndArrayLengths ==
    /\ (HeaderArrived /\ codec.frame[1] \in {"$", "*"}) =>
          LET r == RespParser_parse(codec.buf)
          IN IF codec.frame[3] = "1"
             THEN r.st = "Ok" /\ r.reply.type = "Null" /\ r.consumed = Len(codec.frame)
             ELSE r.st = "InvalidLength"
    /\ (codec.buf # <<>> /\ codec.buf[1] \notin TypeBytes) =>
          RespParser_parse(codec.buf).st = "InvalidType"

\* the call's {batch_size, waiter} is in the pending deque
InWaiters(id) == \E i \in 1..Len(m_waiters) : m_waiters[i].id = id

\* C26: a request's waiter is in the pending deque before any byte of the
\* request is written to the socket: a request with a byte written is in the
\* deque or has been notified
C26_EnqueuedBeforeWritten ==
    \A id \in Ids :
        (Accepted(id) /\ BytesWritten(id) > 0) =>
            InWaiters(id) \/ delivered[id] # <<>>

\* the count of the call's entry in the pending deque q, 0 when it has none
Remaining(q, id) ==
    IF \E i \in 1..Len(q) : q[i].id = id
    THEN q[CHOOSE i \in 1..Len(q) : q[i].id = id].batch_size
    ELSE 0

\* the sum of the counts that the entries of q lose by becoming q2
RECURSIVE Decrease(_, _, _)
Decrease(q, q2, n) ==
    IF n = 0 THEN 0
    ELSE Decrease(q, q2, n - 1)
         + (IF \E i \in 1..Len(q) : q[i].id = n
            THEN Remaining(q, n) - Remaining(q2, n) ELSE 0)

\* the reply frames that receiveReply parsed and consumed in this step: the
\* bytes it had and the bytes it read, less the bytes it has left, a frame
\* being the type byte with its text and the CRLF
FramesConsumed ==
    IF Len(wireIn') <= Len(wireIn)
    THEN (Len(buffer) + (Len(wireIn) - Len(wireIn')) - Len(buffer')) \div 2
    ELSE 0

\* C27: a batch enters the pending deque with its expected number of replies
\* as its count; the counts decrease by one for each reply frame parsed and
\* consumed and for no other reason; a batch is completed successfully only
\* with that many parsed replies
C27_RemainingCountsParsedReplies ==
    [][/\ \A i \in 1..Len(m_waiters') :
             ~InWaiters(m_waiters'[i].id) =>
                 m_waiters'[i].batch_size = calls[m_waiters'[i].id].n
       /\ Decrease(m_waiters, m_waiters', MaxReq) = FramesConsumed
       /\ \A id \in Ids :
             (InWaiters(id) /\ delivered'[id] # delivered[id]
                 /\ delivered'[id][Len(delivered'[id])].ok) =>
                 LET vals == delivered'[id][Len(delivered'[id])].vals
                 IN /\ Len(vals) = calls[id].n
                    /\ \A j \in 1..Len(vals) : vals[j].req = id]_vars

\* C28: every request accepted onto the request channel is eventually
\* completed, and no request is completed more than once, when the server
\* answers what it receives and socket errors are reported
C28_EventuallyCompletedOnce ==
    \A id \in Ids :
        /\ Accepted(id) ~> (Len(delivered[id]) = 1)
        /\ [](Len(delivered[id]) <= 1)

\* a request whose bytes were all written after the reader had exited is in
\* the pending deque with nothing left that could complete it
C28_Stranded ==
    \E id \in Ids :
        /\ Accepted(id) /\ FullyWritten(id)
        /\ InWaiters(id)
        /\ readerPc = "exited"
        /\ buffer = <<>>
        /\ sock = "eof"
        /\ writerPc = "idle" /\ channel = <<>>

\* C29: at any time at most one writer task and at most one reader task
\* exist for the session, whatever the sequence of connect, failed
\* handshake, close and repeated connect
C29_OneWriterOneReader == life.writers <= 1 /\ life.readers <= 1

\* C30: each call of RedisClient::execute gives an awaitable for that call's
\* own command that has sent nothing and holds no values, and each
\* RedisConnectionPool::acquire that returns an entry returns one that this
\* call took from the idle queue or created, not what an earlier call left
C30_FreshAwaitablePerCall ==
    [][/\ issued' # issued =>
             /\ m_cmd' = issued'
             /\ m_state' = "Sending"
             /\ m_sent' = 0
             /\ m_values' = <<>>
       /\ \A e \in Entries :
             held'[e] > held[e] =>
                 \/ /\ Contains(pool.m_available_connections, e)
                    /\ ~Contains(pool'.m_available_connections, e)
                 \/ /\ pool'.m_total_created = pool.m_total_created + 1
                    /\ e = pool'.m_total_created]_vars

\* C30 for RedisClient::execute alone
C30_FreshCommandAwaitable ==
    [][issued' # issued =>
          /\ m_cmd' = issued'
          /\ m_state' = "Sending"
          /\ m_sent' = 0
          /\ m_values' = <<>>]_vars

\* C30 for RedisConnectionPool::acquire alone
C30_AcquireOwnResult ==
    [][\A e \in Entries :
          held'[e] > held[e] =>
              \/ /\ Contains(pool.m_available_connections, e)
                 /\ ~Contains(pool'.m_available_connections, e)
              \/ /\ pool'.m_total_created = pool.m_total_created + 1
                 /\ e = pool'.m_total_created]_vars

\* C36: acquire never returns an entry that another caller holds: between
\* an acquire that returned e and the release of e no other acquire returns
\* e, so no entry has two holders
C36_NoEntryHeldTwice == \A e \in Entries : held[e] <= 1

\* C37: each entry is at most once in the idle queue, and only if it is in
\* m_all_connections, so available_connections <= total_connections and
\* active_connections is not negative
C37_IdleQueueWellFormed ==
    /\ \A i, j \in 1..Len(pool.m_available_connections) :
          pool.m_available_connections[i] = pool.m_available_connections[j] => i = j
    /\ \A i \in 1..Len(pool.m_available_connections) :
          Contains(pool.m_all_connections, pool.m_available_connections[i])
    /\ available_connections <= total_connections
    /\ active_connections >= 0

\* C39: at every point total_created - total_destroyed is the number of
\* entries in the pool
C39_CreatedMinusDestroyedIsTotal ==
    pool.m_total_created - pool.m_total_destroyed = total_connections

\* C40: message() returns a message of the table for every RedisErrorType:
\* the index static_cast<int>(m_type) is inside msg
C40_MessageDefined ==
    redisError.pc = "returned" =>
        /\ static_cast_int(redisError.m_type) < Len(msg)
        /\ redisError.message.st = "defined"

\* C34: the len handed to RespParser::parse with the start of the first
\* readable segment is at most that segment's length
C34_SpanInsideFirstSegment == ringbuf.len <= ringbuf.iov_len

\* C35: a reply nested deeper than the bound, all of it in the buffer, is
\* refused with an error
C35_DeepNestingRefused ==
    (codec.kind = "nest" /\ NestingDepth(codec.frame) > MaxDepth /\ codec.buf = codec.frame)
        => RespParser_parse(codec.buf).st \notin {"Ok", "Incomplete"}

\* C32: a co_await of connect that reports success has the connection
\* established, AUTH sent and accepted when credentials were given, and
\* SELECT sent and accepted when db_index is not 0
C32_SuccessAfterWholeHandshake ==
    m_connect_awaitable.result = "ok" =>
        /\ m_connect_awaitable.socket = "connected"
        /\ m_connect_awaitable.args.auth => m_connect_awaitable.auth_ok
        /\ m_connect_awaitable.args.db_index # 0 => m_connect_awaitable.select_ok

\* C38: a co_await of connect that reports success performed a TCP connect
\* during that call
C38_SuccessMeansConnected ==
    m_connect_awaitable.result = "ok" => m_connect_awaitable.tcp

\* C31: no co_await of a command completes with no value, and the values a
\* call completes with are the replies the server produced for the command
\* named in that call, all of them
C31_AwaitCompletesWithReply ==
    /\ callerPc # "retry"
    /\ \A i \in Ids : \A j \in 1..Len(completed[i]) :
          completed[i][j].ok =>
              /\ Len(completed[i][j].vals) = m_expected_replies
              /\ \A v \in 1..Len(completed[i][j].vals) : completed[i][j].vals[v].req = i

\* what the socket was handed and the server has not consumed, followed by
\* what the sender still holds of the request it is sending
Stream ==
    wireOut \o
        (IF callerPc = "none"
         THEN IF writerPc = "sending" THEN rem ELSE <<>>
         ELSE IF m_state = "Sending"
              THEN SubSeq(encodeCommand(m_cmd, 1), m_sent + 1, Len(encodeCommand(m_cmd, 1)))
              ELSE <<>>)

\* the number of commands request id consists of
BatchOf(id) == IF callerPc = "none" THEN calls[id].n ELSE m_expected_replies

\* C33: whatever the short writes, the bytes handed to the socket are whole
\* encoded commands, each command of a request once and in order after what
\* the server has consumed; a request whose send is over is written in full,
\* and RedisClient is in Receiving only then
C33_ExactBytesInOrder ==
    LET s == Stream
        cnt == Len(s) \div 2
    IN /\ Len(s) % 2 = 0
       /\ \A j \in 1..cnt :
             /\ s[2 * j - 1].k = "hdr"
             /\ s[2 * j] = [k |-> "body", req |-> s[2 * j - 1].req, idx |-> s[2 * j - 1].idx]
       /\ cnt > 0 => s[1].idx = Len(produced[s[1].req]) + 1
       /\ \A j \in 1..(cnt - 1) :
             LET a == s[2 * j - 1]
                 b == s[2 * j + 1]
             IN \/ a.req = b.req /\ b.idx = a.idx + 1
                \/ a.req < b.req /\ b.idx = 1 /\ a.idx = BatchOf(a.req)
       /\ writerPc = "sent" =>
             BytesWritten(cur.id) = Len(encodeBatch(cur.id, cur.batch_size))
       /\ (callerPc # "none" /\ m_state = "Receiving") =>
             BytesWritten(m_cmd) = Len(encodeCommand(m_cmd, 1))

\* a short write has happened: the socket took the first byte of a command
\* and the awaitable holds the rest
C33_Witness ==
    /\ callerPc = "retry"
    /\ m_state = "Sending"
    /\ m_sent = 1
    /\ wireOut = SubSeq(encodeCommand(m_cmd, 1), 1, 1)

====
